---- MODULE Spec2Model ----
(***************************************************************************)
(* A model of the paper-trading algorithm runner:                          *)
(*   - the streaming engine's OrderManager (realtime/src/orders.py),       *)
(*   - the streaming strategies (realtime/src/strategies/*.py),            *)
(*   - the scheduled engine's order bookkeeping                            *)
(*     (trading-engine/src/entry.py).                                      *)
(* Money is counted in whole dollars, time in whole seconds, percentages   *)
(* in whole percent; floating point rounding is not modelled.             *)
(***************************************************************************)
EXTENDS Integers, Sequences, FiniteSets, TLC

VARIABLES
    \* ---- wall clock (time.time()) ----
    clock,
    \* ---- OrderManager (realtime/src/orders.py) ----
    om,                    \* "absent" | "ready" | "refused" (constructor raised)
    base_url,              \* constructor argument, a sequence of characters
    paper_only,
    max_position_pct,      \* in percent
    max_orders_per_minute,
    cooldown_seconds,
    orders_this_minute,    \* list of submission times
    last_order_time,       \* dict symbol -> time
    account_equity,
    positions,             \* dict symbol -> [qty, market_value] (broker cache)
    client,                \* "none" | "open" | "closed"
    \* ---- observation of the OrderManager's calls ----
    calls,                 \* number of submit calls made
    call,                  \* the last submit call: arguments, log line, result
    submitted,             \* every order the brokerage accepted: [symbol, time]
    \* ---- one streaming Strategy instance (realtime/src/strategies) ----
    kind,                  \* "none" until create_strategy, then the type
    strategy_positions,    \* Strategy.positions: dict symbol -> quantity
    last_signal_time,      \* dict symbol -> time
    bought,                \* BuyAndHoldStrategy.bought
    prev_short_above,      \* SMACrossoverStrategy.prev_short_above
    prices,                \* RSIStrategy.prices: dict symbol -> deque
    \* ---- observation of the strategy's calls ----
    ticks,                 \* number of on_tick / on_bar calls made
    returned,              \* the last call: symbol, what it returned
    signals,               \* every signal emitted: [symbol, type, time]
    means_seen,            \* symbol -> the last on_tick that carried both
                           \* means: [short_above, at (its call number)]
    \* ---- the dashboard store, as the scheduled engine sees it ----
    cash,                  \* algorithms.cash of the algorithm
    db_positions,          \* positions rows: symbol -> [quantity, avg_entry_price]
    trades,                \* trades rows, in insertion order
    snapshots,             \* snapshots rows, in insertion order
    \* ---- observation of the scheduled engine's orders ----
    orders,                \* number of submit_order calls made
    order,                 \* the last submit_order call
    clean,                 \* no call of the engine has failed so far
    \* ---- the streaming engine's process (main.py, engine.py, websocket.py) ----
    ws,                    \* AlpacaWebSocket.ws: "none" | "open" | "closed"
    running,               \* AlpacaWebSocket.running
    http_client,           \* the OrderManager's client: "open" | "closed"
    main,                  \* where run_engine is
    refresher,             \* where the _account_refresh_loop task is
    stats,                 \* where the _stats_loop task is
    stopper,               \* where shutdown_handler's engine.stop() task is
    queue,                 \* items of the current frame still to handle
    strat,                 \* index of the next strategy for Head(queue)
    in_flight,             \* OrderManager.submit calls in progress
    \* ---- observation of the streaming engine ----
    handshake,             \* messages received and sent by connect / subscribe
    auth,                  \* the auth response: "none" | "authenticated" | "failed"
    frames,                \* number of data frames received
    received,              \* symbols of the items received, in order
    dispatched,            \* strategy calls made: [tick, strategy], in order
    raised,                \* the strategy calls that raised
    event,                 \* what the last step of the process met
    stop_set,              \* a shutdown signal was received
    \* ---- observation of the scheduled engine's invocations ----
    invocations,           \* number of on_scheduled calls made
    invocation,            \* the last on_scheduled call and what it did
    \* ---- dashboard API (dashboard-api/src/entry.py) ----
    algorithm_row,         \* the algorithm has its row in the algorithms table
    requests,              \* number of dashboard requests served
    \* ---- TickBuffer (realtime/src/indicators.py) ----
    buffers,               \* dict symbol -> deque of ticks
    indicators,            \* what the last get_indicators call returned
    asked,                 \* the symbol of that call ("" before the first)
    adds,                  \* number of add calls made
    arrivals,              \* every tick added, per symbol, in order of arrival
    stamped,               \* every add so far took its timestamp from the clock
    \* ---- batch strategy routines (trading-engine/src/entry.py) ----
    batch,                 \* the evaluation of a symbol by a routine
    \* ---- performance metrics (dashboard_api/metrics.py) ----
    drawdown,              \* the call of calculate_max_drawdown made
    \* ---- TradingEngine.handle_signal (realtime/src/engine.py) ----
    strategy_quantity,     \* strategy.positions: symbol -> quantity, a quotient
    handled,               \* the last handle_signal call
    handles,               \* number of handle_signal calls
    \* ---- overlapping invocations of the scheduled engine ----
    runs                   \* invocation -> where its submit_order stands

omVars == <<om, base_url, paper_only, max_position_pct, max_orders_per_minute,
            cooldown_seconds, orders_this_minute, last_order_time,
            account_equity, positions, client, calls, call, submitted>>

stratVars == <<kind, strategy_positions, last_signal_time, bought,
               prev_short_above, prices, ticks, returned, signals, means_seen>>

schedVars == <<cash, db_positions, trades, snapshots, orders, order, clean>>

streamVars == <<ws, running, http_client, main, refresher, stats, stopper, queue, strat,
                in_flight, handshake, auth, frames, received, dispatched,
                raised, event, stop_set>>

\* what the order manager, the strategy, the scheduled engine never touch
cronVars == <<invocations, invocation>>
dashVars == <<algorithm_row, requests>>
bufferVars == <<buffers, indicators, asked, adds, arrivals, stamped>>
batchVars == <<batch>>
metricsVars == <<drawdown>>
handleVars == <<strategy_quantity, handled, handles>>
overlapVars == <<runs>>

notOM == <<stratVars, schedVars, streamVars, cronVars, dashVars, bufferVars, batchVars, metricsVars, handleVars, overlapVars>>
notStrat == <<omVars, schedVars, streamVars, cronVars, dashVars, bufferVars, batchVars, metricsVars, handleVars, overlapVars>>
notSched == <<clock, omVars, stratVars, streamVars, cronVars, dashVars, bufferVars, batchVars, metricsVars, handleVars, overlapVars>>
notStream == <<clock, omVars, stratVars, schedVars, cronVars, dashVars, bufferVars, batchVars, metricsVars, handleVars, overlapVars>>
notCron == <<clock, omVars, stratVars, schedVars, streamVars, dashVars, bufferVars, batchVars, metricsVars, handleVars, overlapVars>>
\* what the dashboard API leaves alone, the store apart
notDash == <<clock, omVars, stratVars, streamVars, cronVars, bufferVars, batchVars, metricsVars, handleVars, overlapVars>>
notBatch == <<clock, omVars, stratVars, schedVars, streamVars, cronVars, dashVars,
              bufferVars, metricsVars, handleVars,
              overlapVars>>
notMetrics == <<clock, omVars, stratVars, schedVars, streamVars, cronVars, dashVars,
                bufferVars, batchVars, handleVars,
                overlapVars>>
notHandle == <<clock, omVars, stratVars, schedVars, streamVars, cronVars, dashVars,
               bufferVars, batchVars, metricsVars,
               overlapVars>>
\* what two overlapping invocations leave alone, the store apart
notOverlap == <<clock, omVars, stratVars, streamVars, cronVars, dashVars,
                bufferVars, batchVars, metricsVars, handleVars>>
notBuffer == <<omVars, stratVars, schedVars, streamVars, cronVars, dashVars, batchVars, metricsVars, handleVars, overlapVars>>

vars == <<clock, omVars, stratVars, schedVars, streamVars, cronVars, dashVars,
          bufferVars, batchVars, metricsVars, handleVars, overlapVars>>

----------------------------------------------------------------------------
(* Bounds of the model *)

StartTime == 100      \* the clock value at which the process starts
MaxTime == 190        \* the clock stops advancing here
MaxCalls == 3         \* submit calls per run
StratHorizon == 8     \* seconds of clock the strategy runs are followed for
MaxTicks == 4         \* on_tick / on_bar calls per run
MaxOrders == 2        \* submit_order calls per run
MaxFrames == 2        \* data frames the stream delivers
MaxInvocations == 1   \* on_scheduled calls per run
MaxRequests == 2      \* dashboard requests per run
MaxAdds == 3          \* TickBuffer.add calls per run
MaxSignals == 2       \* signals handed to handle_signal
MaxSnapshots == 4     \* snapshots handed to calculate_max_drawdown
MaxBars == 4          \* daily bars that get_bars answers
BufferHorizon == 125  \* seconds of clock the tick buffer is followed for
InitialCash == 10     \* the algorithm's cash when the run starts

Symbols == {"AAPL", "MSFT"}
Deltas == {30, 60}                \* seconds that pass between two calls

EmptyMap == [s \in {} |-> 0]

Max(a, b) == IF a >= b THEN a ELSE b

----------------------------------------------------------------------------
(* Strings, as Python sees them: sequences of characters *)

PaperWord == <<"p", "a", "p", "e", "r">>

PaperUrl == <<"h", "t", "t", "p", "s", ":", "/", "/", "p", "a", "p", "e", "r", "-", "a", "p", "i", ".", "a", "l", "p", "a", "c", "a", ".", "m", "a", "r", "k", "e", "t", "s">>

LiveUrl == <<"h", "t", "t", "p", "s", ":", "/", "/", "a", "p", "i", ".", "a", "l", "p", "a", "c", "a", ".", "m", "a", "r", "k", "e", "t", "s">>

LivePaperPathUrl == <<"h", "t", "t", "p", "s", ":", "/", "/", "a", "p", "i", ".", "a", "l", "p", "a", "c", "a", ".", "m", "a", "r", "k", "e", "t", "s", "/", "p", "a", "p", "e", "r">>

Urls == {PaperUrl, LiveUrl, LivePaperPathUrl}

\* Python's `needle in haystack` for strings
Contains(needle, haystack) ==
    \E i \in 1..(Len(haystack) - Len(needle) + 1) :
        SubSeq(haystack, i, i + Len(needle) - 1) = needle


----------------------------------------------------------------------------
(* OrderManager: realtime/src/orders.py *)

RateWindow == 60                  \* seconds kept in orders_this_minute
DefaultMaxPositionPct == 25       \* max_position_pct = 0.25

RateLimits == {1, 2}              \* values of max_orders_per_minute tried
Cooldowns == {0, 30}              \* values of cooldown_seconds tried
Amounts == {15, 20}               \* dollar_amount of a BUY
Equities == {0, 100}              \* account equity the broker reports
HeldPosition == [qty |-> 2, market_value |-> 10]
BrokerPositions ==                \* what GET /v2/positions can answer
    { [s \in held |-> HeldPosition] : held \in {{}, {"AAPL"}} }
HttpOutcomes == {"ok", "http_error", "error"}

NoCall == [symbol |-> "", type |-> "", dollar_amount |-> 0, log |-> "",
           posted |-> FALSE, result |-> "None"]

\* dict.get(key, default)
Get(dict, key, default) == IF key \in DOMAIN dict THEN dict[key] ELSE default

\* dict[key] = value
Put(dict, key, value) ==
    [k \in DOMAIN dict \cup {key} |-> IF k = key THEN value ELSE dict[k]]

\* the paper-only check of __init__
PaperGuardRaises(url, paperOnly) == paperOnly /\ ~Contains(PaperWord, url)

\* [t for t in self.orders_this_minute if now - t < 60]
PruneOld(now) == SelectSeq(orders_this_minute, LAMBDA t : now - t < RateWindow)

RateLimitHitOffByOne(pruned) == Len(pruned) > max_orders_per_minute

RateLimitHit(pruned) == Len(pruned) >= max_orders_per_minute

CooldownActiveWrongKey(sym, now) ==
    now - Get(last_order_time, "", 0) < cooldown_seconds

CooldownActive(sym, now) ==
    now - Get(last_order_time, sym, 0) < cooldown_seconds

PositionLimitHitIgnoresHeld(sym, amt) ==
    /\ account_equity > 0
    /\ amt * 100 > max_position_pct * account_equity

PositionLimitHitAtZeroEquity(sym, amt) ==
    (amt + IF sym \in DOMAIN positions THEN positions[sym].market_value ELSE 0)
        * 100 > max_position_pct * account_equity

\* position_pct > max_position_pct, with position_pct = new_value / equity
PositionLimitHit(sym, amt) ==
    LET current_position_value ==
            IF sym \in DOMAIN positions THEN positions[sym].market_value ELSE 0
        new_position_value == current_position_value + amt
    IN  /\ account_equity > 0
        /\ new_position_value * 100 > max_position_pct * account_equity

RejectReasonCooldownFirst(sym, type, amt, now, pruned) ==
    IF CooldownActive(sym, now) THEN "cooldown"
    ELSE IF RateLimitHit(pruned) THEN "rate_limit"
    ELSE IF type = "buy" /\ PositionLimitHit(sym, amt) THEN "position_limit"
    ELSE IF type = "sell" /\ sym \notin DOMAIN positions THEN "no_position"
    ELSE "none"

\* the safety pipeline of submit: the first check that fails, or "none"
RejectReason(sym, type, amt, now, pruned) ==
    IF RateLimitHit(pruned) THEN "rate_limit"
    ELSE IF CooldownActive(sym, now) THEN "cooldown"
    ELSE IF type = "buy" /\ PositionLimitHit(sym, amt) THEN "position_limit"
    ELSE IF type = "sell" /\ sym \notin DOMAIN positions THEN "no_position"
    ELSE "none"

InitOM ==
    /\ om = "absent"
    /\ base_url = <<>>
    /\ paper_only = FALSE
    /\ max_position_pct = 0
    /\ max_orders_per_minute = 0
    /\ cooldown_seconds = 0
    /\ orders_this_minute = <<>>
    /\ last_order_time = EmptyMap
    /\ account_equity = 0
    /\ positions = EmptyMap
    /\ client = "none"
    /\ calls = 0
    /\ call = NoCall
    /\ submitted = <<>>

\* OrderManager.__init__
Construct(url, paperOnly, pct, k, cd) ==
    /\ om = "absent"
    /\ base_url' = url
    /\ max_position_pct' = pct
    /\ max_orders_per_minute' = k
    /\ cooldown_seconds' = cd
    /\ paper_only' = paperOnly
    /\ IF PaperGuardRaises(url, paperOnly)
          THEN /\ om' = "refused"
               /\ UNCHANGED <<orders_this_minute, last_order_time,
                              account_equity, positions, client>>
          ELSE /\ om' = "ready"
               /\ orders_this_minute' = <<>>
               /\ last_order_time' = EmptyMap
               /\ account_equity' = 0
               /\ positions' = EmptyMap
               /\ client' = "open"
    /\ UNCHANGED <<clock, calls, call, submitted, notOM>>

\* OrderManager.refresh_account
RefreshAccount(outcome, equity, brokerPositions) ==
    /\ om = "ready"
    /\ \/ /\ outcome = "ok"
          /\ account_equity' = equity
          /\ positions' = brokerPositions
       \/ /\ outcome = "positions_failed"
          /\ account_equity' = equity
          /\ UNCHANGED positions
       \/ /\ outcome = "account_failed"
          /\ UNCHANGED <<account_equity, positions>>
    /\ UNCHANGED <<clock, om, base_url, paper_only, max_position_pct,
                   max_orders_per_minute, cooldown_seconds, orders_this_minute,
                   last_order_time, client, calls, call, submitted, notOM>>

BooksBeforeStatus(posted, http) == posted

\* the rate-limit bookkeeping of submit runs: the POST was made and
\* raise_for_status, resp.json() before it, let the answer through
Books(posted, http) == posted /\ http = "ok"

SubmitBooksPosition(sym, type, amt, http) ==
    /\ om = "ready"
    /\ calls < MaxCalls
    /\ LET now == clock
           pruned == PruneOld(now)
           reason == RejectReason(sym, type, amt, now, pruned)
           posted == reason = "none"
           ok == posted /\ http = "ok"
           books == Books(posted, http)
       IN  /\ orders_this_minute' = IF books THEN Append(pruned, now) ELSE pruned
           /\ last_order_time' =
                 IF books THEN Put(last_order_time, sym, now) ELSE last_order_time
           /\ submitted' =
                 IF ok THEN Append(submitted, [symbol |-> sym, time |-> now])
                       ELSE submitted
           /\ call' = [symbol |-> sym, type |-> type, dollar_amount |-> amt,
                       log |-> IF ~posted THEN reason
                               ELSE IF ok THEN "submitted" ELSE http,
                       posted |-> posted,
                       result |-> IF ok THEN "order" ELSE "None"]
           /\ positions' =
                 IF ok /\ type = "sell"
                    THEN [k \in DOMAIN positions \ {sym} |-> positions[k]]
                 ELSE IF ok
                    THEN Put(positions, sym,
                             [qty |-> 1,
                              market_value |->
                                  amt + IF sym \in DOMAIN positions
                                           THEN positions[sym].market_value
                                           ELSE 0])
                 ELSE positions
    /\ calls' = calls + 1
    /\ UNCHANGED <<clock, om, base_url, paper_only, max_position_pct,
                   max_orders_per_minute, cooldown_seconds, account_equity,
                   client, notOM>>

\* OrderManager.submit
Submit(sym, type, amt, http) ==
    /\ om = "ready"
    /\ calls < MaxCalls
    /\ LET now == clock
           pruned == PruneOld(now)
           reason == RejectReason(sym, type, amt, now, pruned)
           posted == reason = "none"
           ok == posted /\ http = "ok"
           books == Books(posted, http)
       IN  /\ orders_this_minute' = IF books THEN Append(pruned, now) ELSE pruned
           /\ last_order_time' =
                 IF books THEN Put(last_order_time, sym, now) ELSE last_order_time
           /\ submitted' =
                 IF ok THEN Append(submitted, [symbol |-> sym, time |-> now])
                       ELSE submitted
           /\ call' = [symbol |-> sym, type |-> type, dollar_amount |-> amt,
                       log |-> IF ~posted THEN reason
                               ELSE IF ok THEN "submitted" ELSE http,
                       posted |-> posted,
                       result |-> IF ok THEN "order" ELSE "None"]
    /\ calls' = calls + 1
    /\ UNCHANGED <<clock, om, base_url, paper_only, max_position_pct,
                   max_orders_per_minute, cooldown_seconds, account_equity,
                   positions, client, notOM>>

\* time passes between two calls
Tick(d) ==
    /\ clock + d <= MaxTime
    /\ clock' = clock + d
    /\ UNCHANGED <<omVars, notOM>>

\* what the running order manager does, whatever it was constructed with
RunOM ==
    \/ \E outcome \in {"ok", "positions_failed", "account_failed"},
          equity \in Equities, brokerPositions \in BrokerPositions :
          RefreshAccount(outcome, equity, brokerPositions)
    \/ \E sym \in Symbols, amt \in Amounts, http \in HttpOutcomes :
          Submit(sym, "buy", amt, http)
    \/ \E sym \in Symbols, http \in HttpOutcomes :
          Submit(sym, "sell", 0, http)
    \/ \E d \in Deltas : Tick(d)

----------------------------------------------------------------------------
(* Streaming strategies: realtime/src/strategies *)

StrategyCooldown == 5             \* Strategy.cooldown_seconds
ThresholdPct == 5                 \* momentum threshold_pct 0.05, in 1/100 %
ExitThresholdPct == 3             \* momentum exit_threshold_pct 0.03
StdThreshold2 == 4                \* mean reversion std_threshold 2.0, doubled
ExitThreshold2 == 1               \* mean reversion exit_threshold 0.5, doubled
RsiPeriod == 2                    \* the RSI strategy's period parameter
Oversold == 30
Overbought == 70

Kinds == {"momentum", "mean_reversion", "buy_and_hold", "sma_crossover", "rsi"}
None == "None"                    \* a call that returns no signal
Missing == <<>>                   \* indicators.get(key) of an absent key
Momenta == {Missing, <<-4>>, <<0>>, <<6>>}   \* momentum_Ns, in 1/100 %
MeanStd == {Missing, <<100, 0>>, <<100, 2>>} \* (mean, std) of the window
TickPrices == {95, 100, 105}
Smas == {Missing, <<1, 2>>, <<2, 2>>, <<2, 1>>}  \* (short mean, long mean)
RsiPrices == {1, 2, 3}
StratDeltas == {2, 3}

NoReturn == [symbol |-> "", signal |-> None, cooldown |-> FALSE]

has_position_never(sym) == FALSE

\* Strategy.has_position
has_position(sym) == Get(strategy_positions, sym, 0) > 0

in_cooldown_never(sym) == FALSE

\* Strategy.in_cooldown
in_cooldown(sym) ==
    clock - Get(last_signal_time, sym, 0) < StrategyCooldown

\* MomentumStrategy.on_tick: the signal type, or None
MomentumSignal(sym, momentum) ==
    IF momentum = Missing THEN None
    ELSE IF in_cooldown(sym) THEN None
    ELSE IF momentum[1] > ThresholdPct /\ ~has_position(sym) THEN "buy"
    ELSE IF momentum[1] < -ExitThresholdPct /\ has_position(sym) THEN "sell"
    ELSE None

\* MeanReversionStrategy.on_tick; z = (price - mean) / std is compared with
\* the thresholds after multiplying through by 2 * std (std > 0)
MeanReversionSignal(sym, price, ms) ==
    IF ms = Missing THEN None
    ELSE IF ms[2] = 0 THEN None
    ELSE IF in_cooldown(sym) THEN None
    ELSE LET mean == ms[1]
             std == ms[2]
             z2 == 2 * (price - mean)        \* 2 * z * std
             absz2 == IF z2 < 0 THEN -z2 ELSE z2
         IN  IF z2 < -StdThreshold2 * std /\ ~has_position(sym) THEN "buy"
             ELSE IF absz2 < ExitThreshold2 * std /\ has_position(sym) THEN "sell"
             ELSE IF z2 > StdThreshold2 * std /\ has_position(sym) THEN "sell"
             ELSE None

\* SMACrossoverStrategy.on_tick: whether prev_short_above is written
SmaUpdates(sym, sma) == sma # Missing /\ ~in_cooldown(sym)

\* SMACrossoverStrategy.on_tick
SmaSignal(sym, sma) ==
    IF sma = Missing THEN None
    ELSE IF in_cooldown(sym) THEN None
    ELSE LET short_above == sma[1] > sma[2]
         IN  IF sym \notin DOMAIN prev_short_above THEN None
             ELSE IF short_above /\ ~prev_short_above[sym] /\ ~has_position(sym)
                  THEN "buy"
             ELSE IF ~short_above /\ prev_short_above[sym] /\ has_position(sym)
                  THEN "sell"
             ELSE None

\* deque(maxlen = period + 1).append(price)
RingAppend(ring, price) ==
    IF Len(ring) < RsiPeriod + 1 THEN Append(ring, price)
    ELSE Append(Tail(ring), price)

RECURSIVE SumGains(_), SumLosses(_)
\* sum of the rises between consecutive prices
SumGains(ps) ==
    IF Len(ps) < 2 THEN 0
    ELSE (IF ps[2] - ps[1] > 0 THEN ps[2] - ps[1] ELSE 0) + SumGains(Tail(ps))

\* sum of the falls between consecutive prices
SumLosses(ps) ==
    IF Len(ps) < 2 THEN 0
    ELSE (IF ps[2] - ps[1] > 0 THEN 0 ELSE ps[1] - ps[2]) + SumLosses(Tail(ps))

\* RSIStrategy._calc_rsi < bound, for a full ring; rsi = 100 G / (G + L),
\* and 100 when there is no loss
RsiBelow(ring, bound) ==
    LET g == SumGains(ring)
        l == SumLosses(ring)
    IN  IF l = 0 THEN 100 < bound ELSE 100 * g < bound * (g + l)

\* RSIStrategy._calc_rsi > bound, for a full ring
RsiAbove(ring, bound) ==
    LET g == SumGains(ring)
        l == SumLosses(ring)
    IN  IF l = 0 THEN 100 > bound ELSE 100 * g > bound * (g + l)

\* RSIStrategy.on_tick, ring being the deque after this price was appended
RsiSignal(sym, ring) ==
    IF Len(ring) < RsiPeriod + 1 THEN None
    ELSE IF in_cooldown(sym) THEN None
    ELSE IF RsiBelow(ring, Oversold) /\ ~has_position(sym) THEN "buy"
    ELSE IF RsiAbove(ring, Overbought) /\ has_position(sym) THEN "sell"
    ELSE None

BuyAndHoldSignalForgetsBought(sym) ==
    IF ~has_position(sym) THEN "buy" ELSE None

\* BuyAndHoldStrategy.on_tick
BuyAndHoldSignal(sym) ==
    IF sym \in bought THEN None
    ELSE IF ~has_position(sym) THEN "buy"
    ELSE None

InitStrat ==
    /\ kind = "none"
    /\ strategy_positions = EmptyMap
    /\ last_signal_time = EmptyMap
    /\ bought = {}
    /\ prev_short_above = EmptyMap
    /\ prices = EmptyMap
    /\ ticks = 0
    /\ returned = NoReturn
    /\ signals = <<>>
    /\ means_seen = EmptyMap

\* create_strategy(config)
CreateStrategy(k) ==
    /\ kind = "none"
    /\ kind' = k
    /\ UNCHANGED <<clock, strategy_positions, last_signal_time, bought,
                   prev_short_above, prices, ticks, returned, signals,
                   means_seen, notStrat>>

\* What every call ends with: the signal (if any) is returned to the
\* engine, whose handle_signal submits the order and, when an order comes
\* back (filled), updates the strategy's position.  records says whether
\* the strategy called record_signal.
Return(sym, sig, records, filled) ==
    /\ ticks < MaxTicks
    /\ ticks' = ticks + 1
    /\ returned' = [symbol |-> sym, signal |-> sig, cooldown |-> in_cooldown(sym)]
    /\ last_signal_time' =
          IF sig # None /\ records THEN Put(last_signal_time, sym, clock)
          ELSE last_signal_time
    /\ signals' =
          IF sig # None
             THEN Append(signals, [symbol |-> sym, type |-> sig, time |-> clock])
             ELSE signals
    /\ strategy_positions' =
          IF sig = "buy" /\ filled
             THEN Put(strategy_positions, sym, Get(strategy_positions, sym, 0) + 1)
          ELSE IF sig = "sell" /\ filled
             THEN Put(strategy_positions, sym, 0)
          ELSE strategy_positions
    /\ UNCHANGED <<clock, kind, notStrat>>

OnTickMomentum(sym, momentum, filled) ==
    /\ kind = "momentum"
    /\ Return(sym, MomentumSignal(sym, momentum), TRUE, filled)
    /\ UNCHANGED <<bought, prev_short_above, prices, means_seen>>

OnTickMeanReversion(sym, price, ms, filled) ==
    /\ kind = "mean_reversion"
    /\ Return(sym, MeanReversionSignal(sym, price, ms), TRUE, filled)
    /\ UNCHANGED <<bought, prev_short_above, prices, means_seen>>

OnTickSma(sym, sma, filled) ==
    /\ kind = "sma_crossover"
    /\ Return(sym, SmaSignal(sym, sma), TRUE, filled)
    /\ prev_short_above' =
          IF SmaUpdates(sym, sma) THEN Put(prev_short_above, sym, sma[1] > sma[2])
          ELSE prev_short_above
    /\ means_seen' =
          IF sma # Missing
             THEN Put(means_seen, sym,
                      [short_above |-> sma[1] > sma[2], at |-> ticks + 1])
          ELSE means_seen
    /\ UNCHANGED <<bought, prices>>

OnTickRsi(sym, price, filled) ==
    /\ kind = "rsi"
    /\ LET ring == RingAppend(Get(prices, sym, <<>>), price)
       IN  /\ prices' = Put(prices, sym, ring)
           /\ Return(sym, RsiSignal(sym, ring), TRUE, filled)
    /\ UNCHANGED <<bought, prev_short_above, means_seen>>

OnTickBuyAndHoldRetries(sym, filled) ==
    /\ kind = "buy_and_hold"
    /\ LET sig == BuyAndHoldSignal(sym)
       IN  /\ Return(sym, sig, FALSE, filled)
           /\ bought' = IF sig = "buy" /\ filled THEN bought \cup {sym} ELSE bought
    /\ UNCHANGED <<prev_short_above, prices, means_seen>>

\* BuyAndHoldStrategy.on_tick, and on_bar, which calls it with the close
OnTickBuyAndHold(sym, filled) ==
    /\ kind = "buy_and_hold"
    /\ LET sig == BuyAndHoldSignal(sym)
       IN  /\ Return(sym, sig, FALSE, filled)
           /\ bought' = IF sig = "buy" THEN bought \cup {sym} ELSE bought
    /\ UNCHANGED <<prev_short_above, prices, means_seen>>

\* Strategy.on_bar of the four strategies that do not override it
OnBarDefault(sym) ==
    /\ kind \in Kinds \ {"buy_and_hold"}
    /\ Return(sym, None, FALSE, FALSE)
    /\ UNCHANGED <<bought, prev_short_above, prices, means_seen>>

StratTick(d) ==
    /\ kind # "none"
    /\ clock + d <= StartTime + StratHorizon
    /\ clock' = clock + d
    /\ UNCHANGED <<stratVars, notStrat>>

NextStrat ==
    \/ \E k \in Kinds : CreateStrategy(k)
    \/ \E sym \in Symbols, m \in Momenta, filled \in BOOLEAN :
          OnTickMomentum(sym, m, filled)
    \/ \E sym \in Symbols, price \in TickPrices, ms \in MeanStd, filled \in BOOLEAN :
          OnTickMeanReversion(sym, price, ms, filled)
    \/ \E sym \in Symbols, sma \in Smas, filled \in BOOLEAN :
          OnTickSma(sym, sma, filled)
    \/ \E sym \in Symbols, price \in RsiPrices, filled \in BOOLEAN :
          OnTickRsi(sym, price, filled)
    \/ \E sym \in Symbols, filled \in BOOLEAN : OnTickBuyAndHold(sym, filled)
    \/ \E sym \in Symbols : OnBarDefault(sym)
    \/ \E d \in StratDeltas : StratTick(d)

----------------------------------------------------------------------------
(* Scheduled engine: trading-engine/src/entry.py.  One algorithm; its      *)
(* invocations run one after another.                                      *)

Closes == {2, 3}                       \* close of the latest daily bar
AlgoSymbols == {"AAPL"}                \* the algorithm's symbols
Markets == [AlgoSymbols -> Closes]     \* what get_bars answers, per symbol
Fills == {Missing, <<3>>}              \* filled_avg_price of the answer
Pcts == {50, 100}                      \* position_size_pct, in percent
ShareCounts == {4}                     \* position_size_pct above 1, or an int
\* the quantity_or_pct of a buy: a float of at most 1 is a fraction of the
\* cash, any other number is a count of shares
Sizes == {[unit |-> "fraction", value |-> p] : p \in Pcts}
            \cup {[unit |-> "shares", value |-> n] : n \in ShareCounts}
\* the calls of one submit_order that can fail
Calls == {"run_get_position", "get_cash", "get_bars", "insert_trade", "get_position",
          "get_bars_fill", "write_position", "get_cash_update", "update_cash",
          "snapshot_cash", "snapshot_positions", "snapshot_bars",
          "snapshot_insert"}
\* the calls of update_position_buy / update_position_sell and the INSERT
\* of the trade: the reads and writes that book an order
BookkeepingCalls == {"insert_trade", "get_position", "get_bars_fill",
                     "write_position", "get_cash_update", "update_cash"}
\* the calls that fail within one submit_order: none, or one of them
FailSets == {{}} \cup {{c} : c \in Calls}
\* the POST: it raises, or it answers an error body or an order
Answers == {[kind |-> k, filled_avg_price |-> Missing] : k \in {"raised", "error_body"}}
               \cup {[kind |-> "order", filled_avg_price |-> f] : f \in Fills}

NoOrder == [symbol |-> "", side |-> "", quantity |-> 0, close |-> 0,
            filled_avg_price |-> Missing, stage |-> "none", written |-> TRUE,
            answer |-> "none"]

\* int(x / y) for y > 0: Python truncates towards zero
Trunc(x, y) == IF x >= 0 THEN x \div y ELSE -((-x) \div y)

\* submit_order, "Calculate quantity"
Quantity(side, algorithm_cash, quantity_or_pct, current_price) ==
    IF side = "buy" /\ quantity_or_pct.unit = "fraction"
       THEN Trunc(algorithm_cash * quantity_or_pct.value, 100 * current_price)
       ELSE quantity_or_pct.value

SufficientCashAlways(side, estimated_cost, algorithm_cash) == TRUE

\* submit_order, "For BUY: Check if algorithm has enough cash"
SufficientCash(side, estimated_cost, algorithm_cash) ==
    side = "buy" => estimated_cost <= algorithm_cash

BuyFillPriceIsClose(close, filled_avg_price, fails) == close

\* update_position_buy, "Get fill price from order, or estimate"
BuyFillPrice(close, filled_avg_price, fails) ==
    IF filled_avg_price # Missing THEN filled_avg_price[1]
    ELSE IF "get_bars_fill" \in fails THEN 0
    ELSE close

\* update_position_sell, "Get fill price from order, or use current price"
SellFillPrice(filled_avg_price, current_price) ==
    IF filled_avg_price # Missing THEN filled_avg_price[1] ELSE current_price

\* update_position_buy: the store as it leaves it, [positions, cash]
update_position_buy(symbol, quantity, filled_avg_price, close, fails) ==
    LET existing == symbol \in DOMAIN db_positions /\ "get_position" \notin fails
        fill_price == BuyFillPrice(close, filled_avg_price, fails)
        \* the INSERT of a second row for (algorithm_id, symbol) is refused
        written == /\ "write_position" \notin fails
                   /\ existing \/ symbol \notin DOMAIN db_positions
        old == db_positions[symbol]
        new_qty == old.quantity + quantity
        new_avg == (old.quantity * old.avg_entry_price + quantity * fill_price)
                       \div new_qty
        row == IF existing
                  THEN [quantity |-> new_qty, avg_entry_price |-> new_avg]
                  ELSE [quantity |-> quantity, avg_entry_price |-> fill_price]
        current_cash == IF "get_cash_update" \in fails THEN 0 ELSE cash
        new_cash == current_cash - quantity * fill_price
    IN  IF ~written THEN [positions |-> db_positions, cash |-> cash]
        ELSE [positions |-> Put(db_positions, symbol, row),
              cash |-> IF "update_cash" \in fails THEN cash ELSE new_cash]

\* the positions table without the row of symbol
Delete(table, symbol) == [k \in DOMAIN table \ {symbol} |-> table[k]]

update_position_sell_keeps_row(symbol, quantity, filled_avg_price, current_price, fails) ==
    LET old == db_positions[symbol]
        new_qty == old.quantity - quantity
        proceeds == quantity * SellFillPrice(filled_avg_price, current_price)
    IN  IF symbol \notin DOMAIN db_positions THEN [positions |-> db_positions, cash |-> cash]
        ELSE [positions |-> Put(db_positions, symbol,
                               [quantity |-> new_qty,
                                avg_entry_price |-> old.avg_entry_price]),
              cash |-> cash + proceeds]

\* update_position_sell: the store as it leaves it, [positions, cash]
update_position_sell(symbol, quantity, filled_avg_price, current_price, fails) ==
    LET existing == symbol \in DOMAIN db_positions /\ "get_position" \notin fails
        old == db_positions[symbol]
        new_qty == old.quantity - quantity
        fill_price == SellFillPrice(filled_avg_price, current_price)
        proceeds == quantity * fill_price
        algo_cash == IF "get_cash_update" \in fails THEN 0 ELSE cash
        new_cash == algo_cash + proceeds
    IN  IF ~existing \/ "write_position" \in fails
           THEN [positions |-> db_positions, cash |-> cash]
        ELSE [positions |-> IF new_qty <= 0 THEN Delete(db_positions, symbol)
                            ELSE Put(db_positions, symbol,
                                     [quantity |-> new_qty,
                                      avg_entry_price |-> old.avg_entry_price]),
              cash |-> IF "update_cash" \in fails THEN cash ELSE new_cash]

RECURSIVE PositionValue(_, _, _, _)
\* create_snapshot: sum of quantity * current_price over the rows of table
PositionValue(table, syms, market, fails) ==
    IF syms = {} THEN 0
    ELSE LET sym == CHOOSE x \in syms : TRUE
             current_price == IF "snapshot_bars" \in fails
                                 THEN table[sym].avg_entry_price
                                 ELSE market[sym]
         IN  table[sym].quantity * current_price
                 + PositionValue(table, syms \ {sym}, market, fails)

create_snapshot_of_old_cash(store, market, fails) ==
    LET total_equity == cash
                          + PositionValue(store.positions, DOMAIN store.positions,
                                          market, fails)
    IN  Append(snapshots, [equity |-> total_equity, cash |-> cash])

\* create_snapshot on the store [positions, cash]: the snapshots table after
create_snapshot(store, market, fails) ==
    LET algorithm_cash == IF "snapshot_cash" \in fails THEN 0 ELSE store.cash
        total_equity == algorithm_cash
                          + PositionValue(store.positions, DOMAIN store.positions,
                                          market, fails)
    IN  IF "snapshot_positions" \in fails \/ "snapshot_insert" \in fails
           THEN snapshots
        ELSE Append(snapshots, [equity |-> total_equity, cash |-> algorithm_cash])

InitSched ==
    /\ cash = InitialCash
    /\ db_positions = EmptyMap
    /\ trades = <<>>
    /\ snapshots = <<>>
    /\ orders = 0
    /\ order = NoOrder
    /\ clean = TRUE

\* submit_order(algo, symbol, side, quantity_or_pct, env)
\* market: the closes that get_bars answers during this call
submit_order(symbol, side, quantity_or_pct, market, post, fails) ==
    /\ orders < MaxOrders
    /\ orders' = orders + 1
    /\ clean' = (clean /\ fails = {})
    /\ LET algorithm_cash == IF "get_cash" \in fails THEN 0 ELSE cash
           current_price == market[symbol]
           quantity == Quantity(side, algorithm_cash, quantity_or_pct, current_price)
           estimated_cost == quantity * current_price
           stage == IF "get_bars" \in fails THEN "no_bars"
                    ELSE IF quantity <= 0 THEN "no_quantity"
                    ELSE IF ~SufficientCash(side, estimated_cost, algorithm_cash)
                         THEN "insufficient_cash"
                    ELSE IF post.kind = "raised" THEN "post_raised"
                    ELSE IF "insert_trade" \in fails THEN "trade_failed"
                    ELSE "booked"
           price_in_answer == post.filled_avg_price
           store == IF side = "buy"
                       THEN update_position_buy(symbol, quantity, price_in_answer,
                                                current_price, fails)
                       ELSE update_position_sell(symbol, quantity, price_in_answer,
                                                 current_price, fails)
       IN  /\ order' = [symbol |-> symbol, side |-> side, quantity |-> quantity,
                        close |-> current_price,
                        filled_avg_price |-> price_in_answer, stage |-> stage,
                        written |-> fails \cap BookkeepingCalls = {},
                        answer |-> IF stage \in {"no_bars", "no_quantity",
                                                 "insufficient_cash"}
                                      THEN "none" ELSE post.kind]
           /\ IF stage = "booked"
                 THEN /\ trades' = Append(trades,
                             [symbol |-> symbol, side |-> side, quantity |-> quantity,
                              alpaca_order_id |-> IF post.kind = "order" THEN "id" ELSE ""])
                      /\ db_positions' = store.positions
                      /\ cash' = store.cash
                      /\ snapshots' = create_snapshot(store, market, fails)
                 ELSE UNCHANGED <<trades, db_positions, cash, snapshots>>
    /\ UNCHANGED notSched

\* a run_* strategy routine at a symbol for which get_position returned no
\* row (there is none, or the read failed) and the indicators say buy
RunBuy(symbol, pct, market, post, fails) ==
    /\ symbol \notin DOMAIN db_positions \/ "run_get_position" \in fails
    /\ submit_order(symbol, "buy", pct, market, post, fails)

\* a run_* strategy routine at a symbol for which get_position returned a
\* row and the indicators say sell: the whole quantity is sold
RunSell(symbol, market, post, fails) ==
    /\ symbol \in DOMAIN db_positions
    /\ "run_get_position" \notin fails
    /\ submit_order(symbol, "sell",
                    [unit |-> "shares", value |-> db_positions[symbol].quantity],
                    market, post, fails)

NextSched ==
    \/ \E symbol \in AlgoSymbols, pct \in Sizes, market \in Markets,
          post \in Answers, fails \in FailSets :
          RunBuy(symbol, pct, market, post, fails)
    \/ \E symbol \in AlgoSymbols, market \in Markets, post \in Answers,
          fails \in FailSets :
          RunSell(symbol, market, post, fails)

----------------------------------------------------------------------------
(* Scheduled engine, one invocation: on_scheduled and run_algorithm of     *)
(* trading-engine/src/entry.py.  What the batch routines do to the store   *)
(* is the subject of the section above; here they are calls.               *)

ClockAnswers == {"open", "closed", "error"}   \* GET /v2/clock
Minutes == {0, 30}                            \* datetime.now().minute
\* what get_enabled_algorithms returns: the strategy_type of each
\* algorithm, in order (none when the read fails)
AlgorithmLists ==
    {<<>>} \cup {<<k>> : k \in Kinds} \cup {<<k1, k2>> : k1 \in Kinds, k2 \in Kinds}

\* the calls made while one algorithm is run that can fail: the failure of
\* a fetch, a read, the POST or a write is caught where the call is made;
\* a malformed answer (a bar without its close) raises in the routine
CallFailures == {"get_bars", "get_position", "get_cash", "post", "store_write",
                 "malformed"}
\* nothing fails (algorithm 0), or one call fails while algorithm i is run
Failures == {[algorithm |-> 0, call |-> "none"]}
               \cup {[algorithm |-> i, call |-> c] : i \in 1..2, c \in CallFailures}

NoInvocation == [clock |-> "none", minute |-> 30, algorithms |-> <<>>,
                 hourly |-> <<>>, evaluated |-> <<>>, orders |-> 0,
                 ran |-> <<>>, failure |-> [algorithm |-> 0, call |-> "none"],
                 response |-> "none"]

\* is_market_open: data.get("is_open", False), and False on any exception
is_market_open(answer) == answer = "open"

\* run_algorithm: the batch routine the strategy_type is dispatched to
Routine(strategy_type) ==
    IF strategy_type = "sma_crossover" THEN "run_sma_crossover"
    ELSE IF strategy_type = "rsi" THEN "run_rsi_strategy"
    ELSE IF strategy_type = "momentum" THEN "run_momentum_strategy"
    ELSE IF strategy_type = "buy_and_hold" THEN "run_buy_and_hold"
    ELSE "none"

\* how run_algorithm for algorithm i ends: it returns ("done", or "logged"
\* after a failure caught inside), or it raises
Outcome(i, failure) ==
    IF failure.algorithm # i THEN "done"
    ELSE IF failure.call = "malformed" THEN "raised"
    ELSE "logged"

LoopEndsOnException(outcome) == outcome # "raised"

\* on_scheduled, the try / except around run_algorithm inside the loop: the
\* loop goes on with the next algorithm, whatever the outcome
LoopGoesOn(outcome) == TRUE

RECURSIVE RunAll(_, _, _)
\* on_scheduled's loop over the first n algorithms: the algorithms run, the
\* routines called (each with the symbols it evaluates and how it ended),
\* and whether the loop is still going
RunAll(algorithms, n, failure) ==
    IF n = 0 THEN [ran |-> <<>>, evaluated |-> <<>>, going |-> TRUE]
    ELSE LET before == RunAll(algorithms, n - 1, failure)
             routine == Routine(algorithms[n])
             outcome == Outcome(n, failure)
         IN  IF ~before.going THEN before
             ELSE [ran |-> Append(before.ran, n),
                   evaluated |->
                       IF routine = "none" THEN before.evaluated
                       ELSE Append(before.evaluated,
                                   [algorithm |-> n, routine |-> routine,
                                    symbols |-> AlgoSymbols, outcome |-> outcome]),
                   going |-> LoopGoesOn(outcome)]

\* the orders the routines of one invocation submit when each finds a
\* signal at every symbol: none from a routine in which a call failed
OrdersOf(evaluated) ==
    Cardinality({j \in DOMAIN evaluated : evaluated[j].outcome = "done"})
        * Cardinality(AlgoSymbols)

InitCron ==
    /\ invocations = 0
    /\ invocation = NoInvocation

\* on_scheduled(event, env, ctx).  trading: the routines find a signal at
\* each symbol they evaluate and submit an order for it.
on_scheduled(answer, minute, algorithms, trading, failure) ==
    /\ invocations < MaxInvocations
    /\ failure.algorithm <= Len(algorithms)
    /\ invocations' = invocations + 1
    /\ LET open == is_market_open(answer)
           run == IF open THEN RunAll(algorithms, Len(algorithms), failure)
                  ELSE [ran |-> <<>>, evaluated |-> <<>>, going |-> TRUE]
       IN  invocation' =
              [clock |-> answer, minute |-> minute, algorithms |-> algorithms,
               hourly |-> IF open /\ minute = 0
                             THEN [i \in 1..Len(algorithms) |-> i]
                             ELSE <<>>,
               evaluated |-> run.evaluated,
               orders |-> IF trading THEN OrdersOf(run.evaluated) ELSE 0,
               ran |-> run.ran,
               failure |-> IF open THEN failure
                           ELSE [algorithm |-> 0, call |-> "none"],
               response |-> IF ~open THEN "Market closed, skipping"
                            ELSE IF run.going THEN "Trading engine run complete"
                            ELSE "Error"]
    /\ UNCHANGED notCron

NextCron ==
    \E answer \in ClockAnswers, minute \in Minutes,
       algorithms \in AlgorithmLists, trading \in BOOLEAN,
       failure \in Failures :
       on_scheduled(answer, minute, algorithms, trading, failure)

----------------------------------------------------------------------------
(* Dashboard API: dashboard-api/src/entry.py, the requests that write the  *)
(* rows of the algorithm the scheduled engine runs.                        *)

Sides == {"buy", "sell"}
TradeQuantities == {1}                 \* data.get("quantity", 0)

InitDash ==
    /\ algorithm_row = TRUE
    /\ requests = 0

\* POST /api/algorithms: the row of the algorithm and its initial snapshot
\* with the starting balance
create_algorithm(starting_balance) ==
    /\ requests < MaxRequests
    /\ ~algorithm_row
    /\ requests' = requests + 1
    /\ algorithm_row' = TRUE
    /\ cash' = starting_balance
    /\ snapshots' = Append(snapshots, [equity |-> starting_balance,
                                       cash |-> starting_balance])
    /\ UNCHANGED <<db_positions, trades, orders, order, clean, notDash>>

\* DELETE /api/algorithms/{id}: the algorithm's row and all its trades,
\* positions and snapshots
delete_algorithm ==
    /\ requests < MaxRequests
    /\ requests' = requests + 1
    /\ algorithm_row' = FALSE
    /\ cash' = 0
    /\ trades' = <<>>
    /\ db_positions' = EmptyMap
    /\ snapshots' = <<>>
    /\ UNCHANGED <<orders, order, clean, notDash>>

\* POST /api/trades: a trade recorded by the realtime engine
create_trade(symbol, side, quantity) ==
    /\ requests < MaxRequests
    /\ requests' = requests + 1
    /\ trades' = Append(trades, [symbol |-> symbol, side |-> side,
                                 quantity |-> quantity, alpaca_order_id |-> "id"])
    /\ UNCHANGED <<algorithm_row, cash, db_positions, snapshots, orders, order,
                   clean, notDash>>

NextDash ==
    \/ create_algorithm(InitialCash)
    \/ delete_algorithm
    \/ \E symbol \in AlgoSymbols, side \in Sides, quantity \in TradeQuantities :
          create_trade(symbol, side, quantity)

\* the scheduled engine runs the algorithm while its row is there
\* (get_enabled_algorithms selects from the algorithms table)
EnabledAlgorithmRuns == algorithm_row /\ NextSched

NextStore == EnabledAlgorithmRuns \/ NextDash

----------------------------------------------------------------------------
(* TickBuffer: realtime/src/indicators.py *)

MaxAgeSeconds == 120                   \* TickBuffer(max_age_seconds=120)
BufferPrices == {10, 11}
BufferDeltas == {40, 121}              \* seconds between two calls
Agos == {130}                          \* age of a timestamp the caller passes
MomentumWindows == {5, 10, 15, 30, 60}
MeanWindows == {30, 60, 120}
MomentumKey == [w \in MomentumWindows |->
                   CASE w = 5 -> "momentum_5s" [] w = 10 -> "momentum_10s"
                     [] w = 15 -> "momentum_15s" [] w = 30 -> "momentum_30s"
                     [] w = 60 -> "momentum_60s"]
MeanKey == [w \in MeanWindows |->
               CASE w = 30 -> "mean_30s" [] w = 60 -> "mean_60s"
                 [] w = 120 -> "mean_120s"]
StdKey == [w \in MeanWindows |->
              CASE w = 30 -> "std_30s" [] w = 60 -> "std_60s"
                [] w = 120 -> "std_120s"]

prune_nothing(buffer, cutoff) == buffer

RECURSIVE prune(_, _)
\* TickBuffer._prune: popleft while the first tick is older than the cutoff
prune(buffer, cutoff) ==
    IF buffer # <<>> /\ Head(buffer).timestamp < cutoff
       THEN prune(Tail(buffer), cutoff)
       ELSE buffer

RECURSIVE SumOf(_, _)
\* the sum of f[i] over the indices i of the set idx
SumOf(f, idx) ==
    IF idx = {} THEN 0
    ELSE LET i == CHOOSE x \in idx : TRUE IN f[i] + SumOf(f, idx \ {i})

\* TickBuffer._calc_momentum, in 1/100 %: Missing for None
calc_momentum(buffer, now, seconds) ==
    LET within == {i \in DOMAIN buffer : buffer[i].timestamp >= now - seconds}
        first == CHOOSE i \in within : \A j \in within : i <= j
    IN  IF within = {} \/ buffer[first].price = 0 THEN Missing
        ELSE <<Trunc((buffer[Len(buffer)].price - buffer[first].price) * 10000,
                     buffer[first].price)>>

\* TickBuffer._get_prices_in_window: the indices of the ticks in the window
get_prices_in_window(buffer, now, seconds) ==
    {i \in DOMAIN buffer : buffer[i].timestamp >= now - seconds}

\* TickBuffer._calc_vwap: Missing for None
calc_vwap(buffer) ==
    LET total_value == SumOf([i \in DOMAIN buffer |-> buffer[i].price * buffer[i].size],
                             DOMAIN buffer)
        total_volume == SumOf([i \in DOMAIN buffer |-> buffer[i].size], DOMAIN buffer)
    IN  IF total_volume = 0 THEN Missing ELSE <<total_value \div total_volume>>

\* TickBuffer.get_indicators: the mapping returned, EmptyMap for {}.
\* Means are whole numbers; std_Ns holds the sample variance.
get_indicators(symbol, now) ==
    IF symbol \notin DOMAIN buffers \/ Len(buffers[symbol]) < 2 THEN EmptyMap
    ELSE LET buffer == buffers[symbol]
             tick_prices == [i \in DOMAIN buffer |-> buffer[i].price]
             momenta == {w \in MomentumWindows : calc_momentum(buffer, now, w) # Missing}
             means == {w \in MeanWindows :
                          Cardinality(get_prices_in_window(buffer, now, w)) >= 5}
             mean(w) == LET idx == get_prices_in_window(buffer, now, w)
                        IN  SumOf(tick_prices, idx) \div Cardinality(idx)
             variance(w) ==
                 LET idx == get_prices_in_window(buffer, now, w)
                 IN  SumOf([i \in DOMAIN buffer |-> (tick_prices[i] - mean(w)) * (tick_prices[i] - mean(w))],
                           idx) \div (Cardinality(idx) - 1)
             vwap == calc_vwap(buffer)
             keys == {"tick_count", "last_price"}
                        \cup {MomentumKey[w] : w \in momenta}
                        \cup {MeanKey[w] : w \in means}
                        \cup {StdKey[w] : w \in means}
                        \cup (IF vwap # Missing /\ vwap[1] # 0 THEN {"vwap"} ELSE {})
         IN  [k \in keys |->
                 IF k = "tick_count" THEN Len(buffer)
                 ELSE IF k = "last_price" THEN buffer[Len(buffer)].price
                 ELSE IF k = "vwap" THEN vwap[1]
                 ELSE IF \E w \in momenta : MomentumKey[w] = k
                      THEN calc_momentum(buffer, now,
                               CHOOSE w \in momenta : MomentumKey[w] = k)[1]
                 ELSE IF \E w \in means : MeanKey[w] = k
                      THEN mean(CHOOSE w \in means : MeanKey[w] = k)
                 ELSE variance(CHOOSE w \in means : StdKey[w] = k)]

InitBuffer ==
    /\ buffers = EmptyMap
    /\ indicators = EmptyMap
    /\ asked = ""
    /\ adds = 0
    /\ arrivals = EmptyMap
    /\ stamped = TRUE

\* TickBuffer.add(symbol, price, size, timestamp): timestamp is Missing for
\* None, and then (as for 0) the clock is taken
add(symbol, price, size, timestamp) ==
    /\ adds < MaxAdds
    /\ adds' = adds + 1
    /\ LET tick == [price |-> price, size |-> size,
                    timestamp |-> IF timestamp # Missing /\ timestamp[1] # 0
                                     THEN timestamp[1] ELSE clock]
           buffer == IF symbol \in DOMAIN buffers THEN buffers[symbol] ELSE <<>>
           before == IF symbol \in DOMAIN arrivals THEN arrivals[symbol] ELSE <<>>
       IN  /\ buffers' = Put(buffers, symbol,
                             prune(Append(buffer, tick), clock - MaxAgeSeconds))
           /\ arrivals' = Put(arrivals, symbol, Append(before, tick))
           /\ stamped' = (stamped /\ tick.timestamp = clock)
    /\ UNCHANGED <<clock, indicators, asked, notBuffer>>

\* on_trade (after its add) and on_bar: tick_buffer.get_indicators(symbol)
GetIndicators(symbol) ==
    /\ indicators' = get_indicators(symbol, clock)
    /\ asked' = symbol
    /\ UNCHANGED <<clock, buffers, adds, arrivals, stamped, notBuffer>>

\* time passes
BufferTick(d) ==
    /\ clock + d <= StartTime + BufferHorizon
    /\ clock' = clock + d
    /\ UNCHANGED <<bufferVars, notBuffer>>

NextBuffer ==
    \/ \E symbol \in Symbols, price \in BufferPrices :
          add(symbol, price, 1, Missing)
    \/ \E symbol \in Symbols, price \in BufferPrices, ago \in Agos :
          add(symbol, price, 1, <<clock - ago>>)
    \/ \E symbol \in Symbols : GetIndicators(symbol)
    \/ \E d \in BufferDeltas : BufferTick(d)

----------------------------------------------------------------------------
(* Batch strategy routines of the scheduled engine, at one symbol:         *)
(* trading-engine/src/entry.py and trading_engine/strategies.py.           *)
(* Quotients are kept exact, as a numerator over a positive denominator.   *)

BarCloses == {1, 2, 3}
\* the closes of the bars get_bars answers, oldest first
CloseSeries == UNION {[1..n -> BarCloses] : n \in 0..MaxBars}
ShortPeriods == {1, 2}
LongPeriods == {2, 3}
BatchRsiPeriods == {2, 3}

R(n, d) == [num |-> n, den |-> d]
RAdd(a, b) == R(a.num * b.den + b.num * a.den, a.den * b.den)
RSub(a, b) == R(a.num * b.den - b.num * a.den, a.den * b.den)
\* a / b for b > 0
RDiv(a, b) == R(a.num * b.den, a.den * b.num)
RLess(a, b) == a.num * b.den < b.num * a.den
REq(a, b) == a.num * b.den = b.num * a.den

RECURSIVE Gcd(_, _)
Gcd(a, b) == IF b = 0 THEN a ELSE Gcd(b, a % b)

\* the same number in lowest terms, for a >= 0: one value, one representation
Reduce(a) ==
    LET g == Gcd(a.num, a.den)
    IN  R(a.num \div g, a.den \div g)

\* the Python slice seq[-n:] for n >= 1
LastN(seq, n) ==
    IF n >= Len(seq) THEN seq ELSE SubSeq(seq, Len(seq) - n + 1, Len(seq))

\* sum(seq)
Sum(seq) == SumOf(seq, DOMAIN seq)

\* strategies.calculate_sma: Missing for None
calculate_sma(closes, period) ==
    IF Len(closes) < period THEN Missing
    ELSE <<R(Sum(LastN(closes, period)), period)>>

calculate_rsi_always_zero(closes, period) == R(0, 1)

\* calculate_rsi (entry.py and strategies.py hold the same text)
calculate_rsi(closes, period) ==
    LET change == [i \in 1..(Len(closes) - 1) |-> closes[i + 1] - closes[i]]
        gains == [i \in DOMAIN change |-> IF change[i] > 0 THEN change[i] ELSE 0]
        losses == [i \in DOMAIN change |-> IF change[i] > 0 THEN 0 ELSE -change[i]]
        avg_gain == R(Sum(LastN(gains, period)), period)
        avg_loss == R(Sum(LastN(losses, period)), period)
    IN  IF avg_loss.num = 0 THEN R(100, 1)
        ELSE LET rs == RDiv(avg_gain, avg_loss)
             IN  RSub(R(100, 1), RDiv(R(100, 1), RAdd(R(1, 1), rs)))

\* strategies.should_buy_sma_crossover / should_sell_sma_crossover
should_buy_sma_crossover(short_sma, long_sma, position) ==
    RLess(long_sma, short_sma) /\ ~position
should_sell_sma_crossover(short_sma, long_sma, position) ==
    RLess(short_sma, long_sma) /\ position

SmaCrossoverActionBuysOnEqual(closes, short_period, long_period, position) ==
    IF Len(closes) < long_period THEN "none"
    ELSE IF ~RLess(R(Sum(LastN(closes, short_period)), short_period),
                   R(Sum(LastN(closes, long_period)), long_period)) /\ ~position
         THEN "buy"
    ELSE IF RLess(R(Sum(LastN(closes, short_period)), short_period),
                  R(Sum(LastN(closes, long_period)), long_period)) /\ position
         THEN "sell"
    ELSE "none"

\* run_sma_crossover, the body of its loop: what it asks submit_order for
SmaCrossoverAction(closes, short_period, long_period, position) ==
    IF Len(closes) < long_period THEN "none"
    ELSE LET short_sma == R(Sum(LastN(closes, short_period)), short_period)
             long_sma == R(Sum(LastN(closes, long_period)), long_period)
         IN  IF RLess(long_sma, short_sma) /\ ~position THEN "buy"
             ELSE IF RLess(short_sma, long_sma) /\ position THEN "sell"
             ELSE "none"

\* run_rsi_strategy, the body of its loop
RsiAction(closes, period, position) ==
    IF Len(closes) < period + 1 THEN "none"
    ELSE LET rsi == calculate_rsi(closes, period)
         IN  IF RLess(rsi, R(Oversold, 1)) /\ ~position THEN "buy"
             ELSE IF RLess(R(Overbought, 1), rsi) /\ position THEN "sell"
             ELSE "none"

\* strategies.should_buy_rsi / should_sell_rsi
should_buy_rsi(rsi, oversold_threshold, position) ==
    RLess(rsi, R(oversold_threshold, 1)) /\ ~position
should_sell_rsi(rsi, overbought_threshold, position) ==
    RLess(R(overbought_threshold, 1), rsi) /\ position

\* the closes of the bars of the momentum routine: a close of 0 included
MomentumCloses == {0, 1, 2}
MomentumSeries == UNION {[1..n -> MomentumCloses] : n \in 0..MaxBars}
LookbackDays == {2, 3}
BatchThresholdPct == 5

\* strategies.calculate_momentum, for prices >= 0
calculate_momentum(start_price, end_price) ==
    IF start_price = 0 THEN R(0, 1)
    ELSE R((end_price - start_price) * 100, start_price)

\* strategies.should_buy_momentum / should_sell_momentum
should_buy_momentum(momentum_pct, threshold_pct, position) ==
    RLess(R(threshold_pct, 1), momentum_pct) /\ ~position
should_sell_momentum(momentum_pct, threshold_pct, position) ==
    RLess(momentum_pct, R(-threshold_pct, 1)) /\ position

\* run_momentum_strategy, the body of its loop; "raise": the division by a
\* start price of 0 raises ZeroDivisionError and ends the routine
MomentumAction(closes, lookback_days, threshold_pct, position) ==
    IF Len(closes) < lookback_days THEN "none"
    ELSE LET start_price == closes[1]
             end_price == closes[Len(closes)]
         IN  IF start_price = 0 THEN "raise"
             ELSE LET momentum_pct == R((end_price - start_price) * 100, start_price)
                  IN  IF RLess(R(threshold_pct, 1), momentum_pct) /\ ~position
                         THEN "buy"
                      ELSE IF RLess(momentum_pct, R(-threshold_pct, 1)) /\ position
                         THEN "sell"
                      ELSE "none"

NoBatch == [routine |-> "none", closes |-> <<>>, short_period |-> 0,
            period |-> 0, position |-> FALSE, rsi |-> Missing,
            action |-> "none"]

InitBatch ==
    batch = NoBatch

\* run_sma_crossover at one symbol; position: get_position returned a row
run_sma_crossover(closes, short_period, long_period, position) ==
    /\ batch = NoBatch
    /\ batch' = [routine |-> "run_sma_crossover", closes |-> closes,
                 short_period |-> short_period, period |-> long_period,
                 position |-> position, rsi |-> Missing,
                 action |-> SmaCrossoverAction(closes, short_period, long_period,
                                               position)]
    /\ UNCHANGED notBatch

\* run_rsi_strategy at one symbol
run_rsi_strategy(closes, period, position) ==
    /\ batch = NoBatch
    /\ batch' = [routine |-> "run_rsi_strategy", closes |-> closes,
                 short_period |-> 0, period |-> period, position |-> position,
                 rsi |-> IF Len(closes) < period + 1 THEN Missing
                         ELSE <<calculate_rsi(closes, period)>>,
                 action |-> RsiAction(closes, period, position)]
    /\ UNCHANGED notBatch

\* run_momentum_strategy at one symbol
run_momentum_strategy(closes, lookback_days, position) ==
    /\ batch = NoBatch
    /\ batch' = [routine |-> "run_momentum_strategy", closes |-> closes,
                 short_period |-> 0, period |-> lookback_days,
                 position |-> position, rsi |-> Missing,
                 action |-> MomentumAction(closes, lookback_days,
                                           BatchThresholdPct, position)]
    /\ UNCHANGED notBatch

NextBatch ==
    \/ \E closes \in CloseSeries, short_period \in ShortPeriods,
          long_period \in LongPeriods, position \in BOOLEAN :
          run_sma_crossover(closes, short_period, long_period, position)
    \/ \E closes \in CloseSeries, period \in BatchRsiPeriods, position \in BOOLEAN :
          run_rsi_strategy(closes, period, position)
    \/ \E closes \in MomentumSeries, lookback_days \in LookbackDays,
          position \in BOOLEAN :
          run_momentum_strategy(closes, lookback_days, position)

\* RSI is computed by the scheduled engine's worker and by the streaming
\* engine's strategy, two programs: a run follows one of them
WorkerRsiRuns ==
    /\ kind = "none"
    /\ \E closes \in CloseSeries, period \in BatchRsiPeriods, position \in BOOLEAN :
          run_rsi_strategy(closes, period, position)

StreamRsiRuns ==
    /\ batch = NoBatch
    /\ \/ CreateStrategy("rsi")
       \/ \E sym \in Symbols, price \in RsiPrices, filled \in BOOLEAN :
             OnTickRsi(sym, price, filled)
       \/ \E d \in StratDeltas : StratTick(d)

NextRsi == WorkerRsiRuns \/ StreamRsiRuns

----------------------------------------------------------------------------
(* Performance metrics of the dashboard: dashboard_api/metrics.py          *)

\* equity of a snapshot: cash plus the market value of the positions; the
\* cash the scheduled engine stores can be negative (a fill above the close,
\* a failed cash read), and with it the equity
SnapshotEquities == {-1, 0, 1, 2}
SnapshotSeries == UNION {[1..n -> SnapshotEquities] : n \in 0..MaxSnapshots}

RECURSIVE DrawdownLoop(_, _, _, _)
\* the for loop of calculate_max_drawdown from snapshot i on
DrawdownLoop(equities, i, peak, max_drawdown) ==
    IF i > Len(equities) THEN max_drawdown
    ELSE LET equity == equities[i]
             new_peak == IF equity > peak THEN equity ELSE peak
             dd == IF new_peak > 0 THEN R(new_peak - equity, new_peak)
                   ELSE max_drawdown
         IN  DrawdownLoop(equities, i + 1, new_peak,
                 IF RLess(max_drawdown, dd) THEN dd ELSE max_drawdown)

\* what calculate_max_drawdown returns, as a quotient, for the equities of
\* the snapshots
MaxDrawdown(equities) ==
    IF Len(equities) = 0 THEN R(0, 1)
    ELSE DrawdownLoop(equities, 1, equities[1], R(0, 1))

NoDrawdown == [called |-> FALSE, snapshots |-> <<>>, result |-> R(0, 1)]

InitMetrics ==
    drawdown = NoDrawdown

calculate_max_drawdown(equities) ==
    /\ ~drawdown.called
    /\ drawdown' = [called |-> TRUE, snapshots |-> equities,
                    result |-> MaxDrawdown(equities)]
    /\ UNCHANGED notMetrics

NextMetrics ==
    \E equities \in SnapshotSeries : calculate_max_drawdown(equities)

----------------------------------------------------------------------------
(* TradingEngine.handle_signal: realtime/src/engine.py                     *)

CashAllocations == {1000}
\* Strategy.position_size_pct, in percent
PositionSizePcts == {10, 50}
SignalPrices == {3, 5}
\* what OrderManager.submit returns: None, or the broker's order with or
\* without a filled_qty
SubmitAnswers ==
    {[order |-> FALSE, filled_qty |-> Missing]}
        \cup {[order |-> TRUE, filled_qty |-> f] : f \in {Missing, <<0>>, <<3>>}}

NoHandled == [symbol |-> "", type |-> "", price |-> 0, dollar_amount |-> R(0, 1),
              answer |-> [order |-> FALSE, filled_qty |-> Missing]]

\* dollar_amount of handle_signal
DollarAmount(type, cash_allocation, position_size_pct) ==
    IF type = "buy" THEN Reduce(R(cash_allocation * position_size_pct, 100))
    ELSE R(0, 1)

FilledQtyIsEstimate(answer, dollar_amount, price) ==
    RDiv(dollar_amount, R(price, 1))

\* float(order.get("filled_qty", 0)) or (dollar_amount / signal.price)
FilledQty(answer, dollar_amount, price) ==
    LET given == IF answer.filled_qty = Missing THEN 0 ELSE answer.filled_qty[1]
    IN  IF given # 0 THEN R(given, 1)
        ELSE RDiv(dollar_amount, R(price, 1))

InitHandle ==
    /\ strategy_quantity = EmptyMap
    /\ handled = NoHandled
    /\ handles = 0

\* handle_signal(signal, strategy); answer is what orders.submit returns
handle_signal(type, symbol, price, cash_allocation, position_size_pct, answer) ==
    /\ handles < MaxSignals
    /\ handles' = handles + 1
    /\ LET dollar_amount == DollarAmount(type, cash_allocation, position_size_pct)
       IN  /\ handled' = [symbol |-> symbol, type |-> type, price |-> price,
                          dollar_amount |-> dollar_amount, answer |-> answer]
           /\ strategy_quantity' =
                 IF ~answer.order THEN strategy_quantity
                 ELSE IF type = "buy"
                      THEN Put(strategy_quantity, symbol,
                               Reduce(RAdd(Get(strategy_quantity, symbol, R(0, 1)),
                                           FilledQty(answer, dollar_amount,
                                                     price))))
                 ELSE Put(strategy_quantity, symbol, R(0, 1))
    /\ UNCHANGED notHandle

NextHandle ==
    \E type \in {"buy", "sell"}, symbol \in Symbols, price \in SignalPrices,
       cash_allocation \in CashAllocations, position_size_pct \in PositionSizePcts,
       answer \in SubmitAnswers :
       handle_signal(type, symbol, price, cash_allocation, position_size_pct, answer)

----------------------------------------------------------------------------
(* Two invocations of the scheduled engine that overlap for one algorithm:  *)
(* on_scheduled by the cron trigger and by /run, or run_algorithm by /test, *)
(* trading-engine/src/entry.py.  Each has decided to buy the symbol and     *)
(* runs submit_order; every await is a point where the other one can run.   *)
(* The store is the one of the scheduled engine: cash, db_positions,        *)
(* trades, snapshots.                                                       *)

Invocations == {1, 2}
OverlapSymbol == "AAPL"
OverlapCloses == {2}
OverlapQuantities == {1, 2}

NoRun == [pc |-> "start", quantity |-> 0, close |-> 0, algorithm_cash |-> 0,
          existing |-> Missing, current_cash |-> 0]

InitOverlap ==
    runs = [i \in Invocations |-> NoRun]

\* what an action of invocation i leaves alone besides the store
OverlapFrame == UNCHANGED <<orders, order, clean, notOverlap>>

\* submit_order: get_bars, get_algorithm_cash, the quantity and the cash test
ReadCash(i, quantity, close) ==
    /\ runs[i].pc = "start"
    /\ LET algorithm_cash == cash
           enough == SufficientCash("buy", quantity * close, algorithm_cash)
       IN  runs' = [runs EXCEPT ![i] =
                       [@ EXCEPT !.pc = IF enough THEN "post" ELSE "done",
                                 !.quantity = quantity, !.close = close,
                                 !.algorithm_cash = algorithm_cash]]
    /\ UNCHANGED <<cash, db_positions, trades, snapshots>>
    /\ OverlapFrame

\* submit_order: the POST is answered with an order, the trade is inserted
PostAndLog(i) ==
    /\ runs[i].pc = "post"
    /\ trades' = Append(trades, [symbol |-> OverlapSymbol, side |-> "buy",
                                 quantity |-> runs[i].quantity,
                                 alpaca_order_id |-> "id"])
    /\ runs' = [runs EXCEPT ![i].pc = "get_position"]
    /\ UNCHANGED <<cash, db_positions, snapshots>>
    /\ OverlapFrame

\* update_position_buy: existing = await get_position(...)
ReadPosition(i) ==
    /\ runs[i].pc = "get_position"
    /\ runs' = [runs EXCEPT ![i] =
                   [@ EXCEPT !.pc = "write_position",
                             !.existing = IF OverlapSymbol \in DOMAIN db_positions
                                             THEN <<db_positions[OverlapSymbol]>>
                                             ELSE Missing]]
    /\ UNCHANGED <<cash, db_positions, trades, snapshots>>
    /\ OverlapFrame

\* update_position_buy: the UPDATE with the quantity computed from the row
\* read, or the INSERT, which the unique key refuses when a row is there
\* (the exception ends update_position_buy before the cash is touched)
WritePosition(i) ==
    /\ runs[i].pc = "write_position"
    /\ LET run == runs[i]
           fill_price == run.close
       IN  IF run.existing # Missing
              THEN LET old == run.existing[1]
                       new_qty == old.quantity + run.quantity
                       new_avg == (old.quantity * old.avg_entry_price
                                      + run.quantity * fill_price) \div new_qty
                   IN  /\ db_positions' =
                             IF OverlapSymbol \in DOMAIN db_positions
                                THEN Put(db_positions, OverlapSymbol,
                                         [quantity |-> new_qty,
                                          avg_entry_price |-> new_avg])
                                ELSE db_positions
                       /\ runs' = [runs EXCEPT ![i].pc = "read_cash"]
           ELSE IF OverlapSymbol \in DOMAIN db_positions
              THEN /\ runs' = [runs EXCEPT ![i].pc = "snapshot"]
                   /\ UNCHANGED db_positions
           ELSE /\ db_positions' = Put(db_positions, OverlapSymbol,
                                       [quantity |-> run.quantity,
                                        avg_entry_price |-> fill_price])
                /\ runs' = [runs EXCEPT ![i].pc = "read_cash"]
    /\ UNCHANGED <<cash, trades, snapshots>>
    /\ OverlapFrame

\* update_position_buy: current_cash = await get_algorithm_cash(...)
ReadCashForUpdate(i) ==
    /\ runs[i].pc = "read_cash"
    /\ runs' = [runs EXCEPT ![i] = [@ EXCEPT !.pc = "write_cash",
                                             !.current_cash = cash]]
    /\ UNCHANGED <<cash, db_positions, trades, snapshots>>
    /\ OverlapFrame

\* update_position_buy: await update_algorithm_cash(current_cash - cost)
WriteCash(i) ==
    /\ runs[i].pc = "write_cash"
    /\ cash' = runs[i].current_cash - runs[i].quantity * runs[i].close
    /\ runs' = [runs EXCEPT ![i].pc = "snapshot"]
    /\ UNCHANGED <<db_positions, trades, snapshots>>
    /\ OverlapFrame

\* submit_order: create_snapshot
SnapshotAfterTrade(i) ==
    /\ runs[i].pc = "snapshot"
    /\ snapshots' = create_snapshot([positions |-> db_positions, cash |-> cash],
                                    [s \in {OverlapSymbol} |-> runs[i].close], {})
    /\ runs' = [runs EXCEPT ![i].pc = "done"]
    /\ UNCHANGED <<cash, db_positions, trades>>
    /\ OverlapFrame

NextOverlap ==
    \E i \in Invocations :
        \/ \E quantity \in OverlapQuantities, close \in OverlapCloses :
              ReadCash(i, quantity, close)
        \/ PostAndLog(i)
        \/ ReadPosition(i)
        \/ WritePosition(i)
        \/ ReadCashForUpdate(i)
        \/ WriteCash(i)
        \/ SnapshotAfterTrade(i)

----------------------------------------------------------------------------
(* Streaming engine process: realtime/src/main.py, engine.py, websocket.py *)
(* One event loop runs run_engine, the two background tasks and the task   *)
(* of the shutdown handler; a task runs from one await to the next.        *)

\* TradingEngine.symbol_strategies: the strategies, by their place in the
\* configuration, bound to each symbol
symbol_strategies ==
    [sym \in Symbols |-> IF sym = "AAPL" THEN <<1, 2>> ELSE <<2>>]
DataFrames == {<<"AAPL">>, <<"MSFT", "AAPL">>}   \* symbols of a frame's items
AuthResponses == {"authenticated", "failed"}
CallOutcomes == {"none", "raises", "rejected", "post"}
PostAnswers == {"order", "http_error", "timeout"}
\* run_engine is suspended in an await, so the other tasks can run
Awaiting == {"start", "welcome", "auth", "ack", "refresh", "recv", "post"}
\* a background task that is not running (any more)
Ended == {"none", "done", "cancelled"}

AuthAcceptedAlways(resp) == TRUE

\* AlpacaWebSocket.connect: data[0].get("msg") == "authenticated"
AuthAccepted(resp) == resp = "authenticated"

LoopEndedByAnyError(outcome) ==
    outcome \in {"closed", "raises", "rejected", "http_error", "timeout"}

\* AlpacaWebSocket.run: what leaves the receive loop by an exception.
\* A strategy's exception is caught in on_trade / on_bar, a failed POST in
\* OrderManager.submit, a timeout of recv in the loop itself.
LoopEndedBy(outcome) == outcome = "closed"

CanReceiveWhilePosting == main \in {"recv", "post"}

\* AlpacaWebSocket.run awaits the callback of every item of a frame before
\* it awaits the next frame
CanReceive == main = "recv"

\* on_trade / on_bar: the strategy call that follows call k of Head(q)
NextCall(q, k) ==
    IF k < Len(symbol_strategies[Head(q)])
       THEN [queue |-> q, strat |-> k + 1]
       ELSE [queue |-> Tail(q), strat |-> 1]

AfterErrorSkipsRest(q, k) == [queue |-> Tail(q), strat |-> 1]

\* on_trade / on_bar, except Exception: log, go on with the next strategy
AfterError(q, k) == NextCall(q, k)

InitStream ==
    /\ ws = "none"
    /\ running = FALSE
    /\ http_client = "open"
    /\ main = "start"
    /\ refresher = "none"
    /\ stats = "none"
    /\ stopper = "none"
    /\ queue = <<>>
    /\ strat = 1
    /\ in_flight = 0
    /\ handshake = <<>>
    /\ auth = "none"
    /\ frames = 0
    /\ received = <<>>
    /\ dispatched = <<>>
    /\ raised = {}
    /\ event = "none"
    /\ stop_set = FALSE

\* run_engine after a strategy call or an order's answer: the next call of
\* the frame, or back to the loop's test of running
Continue(outcome, q, k) ==
    LET nxt == IF outcome = "raises" THEN AfterError(q, k) ELSE NextCall(q, k)
    IN  /\ queue' = nxt.queue
        /\ strat' = nxt.strat
        /\ main' = IF LoopEndedBy(outcome) THEN "finally"
                   ELSE IF nxt.queue # <<>> THEN "handler"
                   ELSE IF running THEN "recv"
                   ELSE "finally"

\* websockets.connect returns a connection, or raises
Connect(ok) ==
    /\ main = "start"
    /\ ws' = IF ok THEN "open" ELSE ws
    /\ main' = IF ok THEN "welcome" ELSE "finally"
    /\ event' = IF ok THEN "connected" ELSE "connect_failed"
    /\ UNCHANGED <<running, http_client, refresher, stats, stopper, queue, strat,
                   in_flight, handshake, auth, frames, received, dispatched,
                   raised, stop_set, notStream>>

\* connect: the welcome message arrives and the auth message is sent
RecvWelcome ==
    /\ main = "welcome"
    /\ IF ws = "open"
          THEN /\ handshake' = handshake \o <<"welcome", "auth">>
               /\ main' = "auth"
               /\ event' = "welcome"
          ELSE /\ main' = "finally"
               /\ event' = "closed"
               /\ UNCHANGED handshake
    /\ UNCHANGED <<ws, running, http_client, refresher, stats, stopper, queue, strat,
                   in_flight, auth, frames, received, dispatched, raised,
                   stop_set, notStream>>

\* connect: the auth response arrives; engine.run goes on to subscribe,
\* which sends its message
RecvAuth(resp) ==
    /\ main = "auth"
    /\ IF ws = "open"
          THEN /\ auth' = resp
               /\ event' = resp
               /\ IF AuthAccepted(resp)
                     THEN /\ handshake' = handshake \o <<"auth_response", "subscribe">>
                          /\ main' = "ack"
                     ELSE /\ handshake' = Append(handshake, "auth_response")
                          /\ main' = "finally"
          ELSE /\ main' = "finally"
               /\ event' = "closed"
               /\ UNCHANGED <<auth, handshake>>
    /\ UNCHANGED <<ws, running, http_client, refresher, stats, stopper, queue, strat,
                   in_flight, frames, received, dispatched, raised, stop_set,
                   notStream>>

\* subscribe: the acknowledgement arrives; engine.run calls refresh_account
RecvAck ==
    /\ main = "ack"
    /\ IF ws = "open"
          THEN /\ handshake' = Append(handshake, "ack")
               /\ main' = "refresh"
               /\ event' = "ack"
          ELSE /\ main' = "finally"
               /\ event' = "closed"
               /\ UNCHANGED handshake
    /\ UNCHANGED <<ws, running, http_client, refresher, stats, stopper, queue, strat,
                   in_flight, auth, frames, received, dispatched, raised,
                   stop_set, notStream>>

\* engine.run: refresh_account returns (it swallows its failure), the two
\* tasks are created, ws.run sets running and awaits the first frame
RefreshReturns(ok) ==
    /\ main = "refresh"
    /\ ok => http_client = "open"
    /\ refresher' = "created"
    /\ stats' = "created"
    /\ running' = TRUE
    /\ handshake' = Append(handshake, "loop")
    /\ main' = "recv"
    /\ event' = IF ok THEN "refreshed" ELSE "refresh_failed"
    /\ UNCHANGED <<ws, http_client, stopper, queue, strat, in_flight, auth, frames,
                   received, dispatched, raised, stop_set, notStream>>

\* ws.run: a data frame arrives; its items go to on_trade / on_bar in order
RecvFrame(items) ==
    /\ CanReceive
    /\ ws = "open"
    /\ frames < MaxFrames
    /\ frames' = frames + 1
    /\ received' = received \o items
    /\ queue' = items
    /\ strat' = 1
    /\ main' = "handler"
    /\ event' = "frame"
    /\ UNCHANGED <<ws, running, http_client, refresher, stats, stopper, in_flight,
                   handshake, auth, dispatched, raised, stop_set, notStream>>

\* on_trade / on_bar: one strategy's on_tick / on_bar and, for a signal,
\* handle_signal up to the POST of OrderManager.submit.  outcome: no signal,
\* an exception, a signal the safety rails reject, a signal that is POSTed.
StrategyCall(outcome) ==
    /\ main = "handler"
    /\ outcome = "post" => http_client = "open"
    /\ LET sym == Head(queue)
           made == [tick |-> Len(received) - Len(queue) + 1,
                    strategy |-> symbol_strategies[sym][strat]]
       IN  /\ dispatched' = Append(dispatched, made)
           /\ raised' = IF outcome = "raises" THEN raised \cup {made} ELSE raised
    /\ event' = outcome
    /\ IF outcome = "post"
          THEN /\ in_flight' = in_flight + 1
               /\ main' = "post"
               /\ UNCHANGED <<queue, strat>>
          ELSE /\ UNCHANGED in_flight
               /\ Continue(outcome, queue, strat)
    /\ UNCHANGED <<ws, running, http_client, refresher, stats, stopper, handshake,
                   auth, frames, received, stop_set, notStream>>

\* OrderManager.submit: the POST is answered (an order, HTTP >= 400, a
\* timeout); submit returns and handle_signal ends
PostAnswer(answer) ==
    /\ main = "post"
    /\ in_flight' = in_flight - 1
    /\ event' = answer
    /\ Continue(answer, queue, strat)
    /\ UNCHANGED <<ws, running, http_client, refresher, stats, stopper, handshake,
                   auth, frames, received, dispatched, raised, stop_set,
                   notStream>>

RecvTimeoutEndsLoop ==
    /\ main = "recv"
    /\ ws = "open"
    /\ running' = FALSE
    /\ main' = "finally"
    /\ event' = "recv_timeout"
    /\ UNCHANGED <<ws, http_client, refresher, stats, stopper, queue,
                   strat, in_flight, handshake, auth, frames, received,
                   dispatched, raised, stop_set, notStream>>

\* ws.run: no frame for 30 seconds; a ping is sent and the loop tests
\* running again
RecvTimeout ==
    /\ main = "recv"
    /\ ws = "open"
    /\ main' = IF running THEN "recv" ELSE "finally"
    /\ event' = "recv_timeout"
    /\ UNCHANGED <<ws, running, http_client, refresher, stats, stopper, queue,
                   strat, in_flight, handshake, auth, frames, received,
                   dispatched, raised, stop_set, notStream>>

\* ws.run: recv (or the ping) meets the closed connection
RecvClosed ==
    /\ main = "recv"
    /\ ws = "closed"
    /\ running' = FALSE
    /\ main' = "finally"
    /\ event' = "closed"
    /\ UNCHANGED <<ws, http_client, refresher, stats, stopper, queue, strat,
                   in_flight, handshake, auth, frames, received, dispatched,
                   raised, stop_set, notStream>>

\* the server closes the connection
ConnectionLost ==
    /\ ws = "open"
    /\ main \in Awaiting
    /\ ws' = "closed"
    /\ UNCHANGED <<running, http_client, main, refresher, stats, stopper, queue,
                   strat, in_flight, handshake, auth, frames, received,
                   dispatched, raised, event, stop_set, notStream>>

\* run_engine's finally: engine.stop(); then run_engine ends and
\* asyncio.run cancels the tasks that are left
Finally ==
    /\ main = "finally"
    /\ running' = FALSE
    /\ ws' = IF ws = "open" THEN "closed" ELSE ws
    /\ http_client' = "closed"
    /\ main' = "exited"
    /\ refresher' = IF refresher \in Ended THEN refresher ELSE "cancelled"
    /\ stats' = IF stats \in Ended THEN stats ELSE "cancelled"
    /\ stopper' = IF stopper \in Ended THEN stopper ELSE "cancelled"
    /\ event' = "exit"
    /\ UNCHANGED <<queue, strat, in_flight, handshake, auth, frames, received,
                   dispatched, raised, stop_set, notStream>>

\* SIGINT / SIGTERM: shutdown_handler creates the engine.stop() task
Signal ==
    /\ main \in Awaiting
    /\ stopper = "none"
    /\ stopper' = "created"
    /\ stop_set' = TRUE
    /\ UNCHANGED <<ws, running, http_client, main, refresher, stats, queue, strat,
                   in_flight, handshake, auth, frames, received, dispatched,
                   raised, event, notStream>>

\* engine.stop: ws.close() clears running and closes the connection, if
\* there is one
StopCloseStream ==
    /\ main \in Awaiting
    /\ stopper = "created"
    /\ running' = FALSE
    /\ ws' = IF ws = "open" THEN "closed" ELSE ws
    /\ stopper' = "closing"
    /\ UNCHANGED <<http_client, main, refresher, stats, queue, strat, in_flight,
                   handshake, auth, frames, received, dispatched, raised,
                   event, stop_set, notStream>>

\* engine.stop: orders.close() closes the HTTP client
StopCloseOrders ==
    /\ main \in Awaiting
    /\ stopper = "closing"
    /\ http_client' = "closed"
    /\ stopper' = "done"
    /\ UNCHANGED <<ws, running, main, refresher, stats, queue, strat,
                   in_flight, handshake, auth, frames, received, dispatched,
                   raised, event, stop_set, notStream>>

\* _account_refresh_loop: the test of ws.running, then sleep(60)
RefresherRuns ==
    /\ main \in Awaiting
    /\ refresher = "created"
    /\ refresher' = IF running THEN "sleeping" ELSE "done"
    /\ UNCHANGED <<ws, running, http_client, main, stats, stopper, queue, strat,
                   in_flight, handshake, auth, frames, received, dispatched,
                   raised, event, stop_set, notStream>>

\* _account_refresh_loop: the sleep ends and refresh_account is called
RefresherWakes ==
    /\ main \in Awaiting
    /\ refresher = "sleeping"
    /\ refresher' = "refreshing"
    /\ UNCHANGED <<ws, running, http_client, main, stats, stopper, queue, strat,
                   in_flight, handshake, auth, frames, received, dispatched,
                   raised, event, stop_set, notStream>>

\* _account_refresh_loop: refresh_account returns (it swallows its
\* failure); the test of ws.running, then the next sleep
RefresherReturns(ok) ==
    /\ main \in Awaiting
    /\ refresher = "refreshing"
    /\ ok => http_client = "open"
    /\ refresher' = IF running THEN "sleeping" ELSE "done"
    /\ event' = IF ok THEN "refreshed" ELSE "refresh_failed"
    /\ UNCHANGED <<ws, running, http_client, main, stats, stopper, queue, strat,
                   in_flight, handshake, auth, frames, received, dispatched,
                   raised, stop_set, notStream>>

\* _stats_loop: the test of ws.running, then sleep(30)
StatsRuns ==
    /\ main \in Awaiting
    /\ stats = "created"
    /\ stats' = IF running THEN "sleeping" ELSE "done"
    /\ UNCHANGED <<ws, running, http_client, main, refresher, stopper, queue, strat,
                   in_flight, handshake, auth, frames, received, dispatched,
                   raised, event, stop_set, notStream>>

\* _stats_loop: the sleep ends, the counters are logged, ws.running is tested
StatsWakes ==
    /\ main \in Awaiting
    /\ stats = "sleeping"
    /\ stats' = IF running THEN "sleeping" ELSE "done"
    /\ UNCHANGED <<ws, running, http_client, main, refresher, stopper, queue, strat,
                   in_flight, handshake, auth, frames, received, dispatched,
                   raised, event, stop_set, notStream>>

\* what run_engine does
MainSteps ==
    \/ \E ok \in BOOLEAN : Connect(ok)
    \/ RecvWelcome
    \/ \E resp \in AuthResponses : RecvAuth(resp)
    \/ RecvAck
    \/ \E ok \in BOOLEAN : RefreshReturns(ok)
    \/ \E outcome \in CallOutcomes : StrategyCall(outcome)
    \/ \E answer \in PostAnswers : PostAnswer(answer)
    \/ RecvTimeout
    \/ RecvClosed
    \/ Finally

\* what the engine.stop() task of the shutdown handler does
StopperSteps == StopCloseStream \/ StopCloseOrders

\* what the _account_refresh_loop task does
RefresherSteps ==
    \/ RefresherRuns
    \/ RefresherWakes
    \/ \E ok \in BOOLEAN : RefresherReturns(ok)

\* what the _stats_loop task does
StatsSteps == StatsRuns \/ StatsWakes

NextStream ==
    \/ MainSteps
    \/ StopperSteps
    \/ RefresherSteps
    \/ StatsSteps
    \/ \E items \in DataFrames : RecvFrame(items)
    \/ ConnectionLost
    \/ Signal

Init ==
    /\ clock = StartTime
    /\ InitOM
    /\ InitStrat
    /\ InitSched
    /\ InitStream
    /\ InitCron
    /\ InitDash
    /\ InitBuffer
    /\ InitBatch
    /\ InitMetrics
    /\ InitHandle
    /\ InitOverlap

\* the order manager of the paper endpoint, over its safety settings
NextOM ==
    \/ \E k \in RateLimits, cd \in Cooldowns :
          Construct(PaperUrl, TRUE, DefaultMaxPositionPct, k, cd)
    \/ RunOM

\* the order manager over the base URLs and paper_only, one safety setting
NextGuard ==
    \/ \E url \in Urls, paperOnly \in BOOLEAN :
          Construct(url, paperOnly, DefaultMaxPositionPct, 2, 30)
    \/ RunOM

SpecOM == Init /\ [][NextOM]_vars

SpecGuard == Init /\ [][NextGuard]_vars

SpecStrat == Init /\ [][NextStrat]_vars

SpecSched == Init /\ [][NextSched]_vars

SpecStream == Init /\ [][NextStream]_vars

SpecCron == Init /\ [][NextCron]_vars

SpecStore == Init /\ [][NextStore]_vars

SpecBuffer == Init /\ [][NextBuffer]_vars

SpecBatch == Init /\ [][NextBatch]_vars

SpecMetrics == Init /\ [][NextMetrics]_vars

SpecHandle == Init /\ [][NextHandle]_vars

SpecOverlap == Init /\ [][NextOverlap]_vars

SpecRsi == Init /\ [][NextRsi]_vars

\* the event loop runs every task that can run; the network answers or times
\* out.  Frames, the loss of the connection and signals may never come.
SpecStreamLive ==
    /\ Init
    /\ [][NextStream]_vars
    /\ WF_vars(MainSteps)
    /\ WF_vars(StopperSteps)
    /\ WF_vars(RefresherSteps)
    /\ WF_vars(StatsSteps)

Next ==
    \/ NextOM \/ NextGuard \/ NextStrat \/ NextSched \/ NextStream \/ NextCron
    \/ NextDash \/ NextBuffer \/ NextBatch \/ NextMetrics \/ NextHandle
    \/ NextOverlap

Spec == Init /\ [][Next]_vars

----------------------------------------------------------------------------
(* Properties of the OrderManager *)

\* the orders the brokerage accepted whose recorded time lies in (w - 60, w]
InWindow(w) ==
    {i \in DOMAIN submitted : w - submitted[i].time < 60 /\ submitted[i].time <= w}

\* C1: with max_orders_per_minute = K, at most K successfully submitted
\* orders have their recorded submission time in any trailing 60-second
\* window, whatever the symbols, sides, broker answers and pauses were.
C1_RateLimit ==
    om = "ready" =>
        \A w \in StartTime..(MaxTime + 1) :
            Cardinality(InWindow(w)) <= max_orders_per_minute

\* more orders than K were accepted over the run, and the last call was
\* turned down by the rate limit
C1_Witness ==
    /\ om = "ready"
    /\ Len(submitted) > max_orders_per_minute
    /\ call.log = "rate_limit"

\* the time of the last accepted order for sym (0 if there is none)
LastAccepted(sym) ==
    LET idx == {i \in DOMAIN submitted : submitted[i].symbol = sym}
    IN  IF idx = {} THEN 0
        ELSE submitted[CHOOSE i \in idx : \A j \in idx : j <= i].time

\* C2: two accepted orders for one symbol are at least cooldown_seconds
\* apart; the cooldown of a symbol starts at its own last accepted order
\* only: other symbols' orders, rejected and failed orders leave it alone.
C2_SymbolCooldown ==
    om = "ready" =>
        /\ \A i, j \in DOMAIN submitted :
              (i < j /\ submitted[i].symbol = submitted[j].symbol)
                  => submitted[j].time - submitted[i].time >= cooldown_seconds
        /\ DOMAIN last_order_time = {submitted[i].symbol : i \in DOMAIN submitted}
        /\ \A sym \in DOMAIN last_order_time :
              last_order_time[sym] = LastAccepted(sym)

\* a cooldown is set, one symbol was ordered twice, and a third call for
\* it, made within the cooldown of the second, was turned down
C2_Witness ==
    /\ cooldown_seconds > 0
    /\ \E i, j \in DOMAIN submitted :
          /\ i < j
          /\ submitted[i].symbol = submitted[j].symbol
          /\ call.symbol = submitted[j].symbol
    /\ call.log = "cooldown"

\* C3: a BUY that submit POSTs keeps (cached market value of the symbol's
\* position + dollar_amount) / account_equity within max_position_pct when
\* the cached equity is positive; a BUY beyond the cap returns None, no POST.
C3_ExposureCap ==
    [][ (calls' = calls + 1 /\ call'.type = "buy" /\ account_equity > 0) =>
          LET held == IF call'.symbol \in DOMAIN positions
                         THEN positions[call'.symbol].market_value ELSE 0
              within == (held + call'.dollar_amount) * 100
                            <= max_position_pct * account_equity
          IN  /\ call'.posted => within
              /\ ~within => (~call'.posted /\ call'.result = "None") ]_vars

\* a BUY for a symbol that is already held was POSTed under positive equity
C3_Witness ==
    /\ call.type = "buy"
    /\ call.log = "submitted"
    /\ account_equity > 0
    /\ call.symbol \in DOMAIN positions

\* C10: submit checks rate limit, then cooldown, then the BUY exposure cap,
\* then the SELL's cached position; the first check that fails is the one
\* logged, the call returns None and nothing is POSTed in that call.
C10_PipelineOrder ==
    [][ calls' = calls + 1 =>
          LET sym == call'.symbol
              recent == {i \in DOMAIN orders_this_minute :
                            clock - orders_this_minute[i] < 60}
              rate == Cardinality(recent) >= max_orders_per_minute
              last == IF sym \in DOMAIN last_order_time
                         THEN last_order_time[sym] ELSE 0
              cool == clock - last < cooldown_seconds
              held == IF sym \in DOMAIN positions
                         THEN positions[sym].market_value ELSE 0
              cap == /\ call'.type = "buy"
                     /\ account_equity > 0
                     /\ (held + call'.dollar_amount) * 100
                            > max_position_pct * account_equity
              nopos == call'.type = "sell" /\ sym \notin DOMAIN positions
              first == IF rate THEN "rate_limit"
                       ELSE IF cool THEN "cooldown"
                       ELSE IF cap THEN "position_limit"
                       ELSE IF nopos THEN "no_position"
                       ELSE "none"
          IN  IF first = "none"
                 THEN call'.posted
                 ELSE /\ call'.log = first
                      /\ call'.result = "None"
                      /\ ~call'.posted
                      /\ submitted' = submitted ]_vars

\* a call that the cooldown turned down while the rate limit had room and
\* the BUY was also beyond the exposure cap
C10_Witness ==
    /\ call.log = "cooldown"
    /\ call.type = "buy"
    /\ account_equity > 0
    /\ call.symbol \in DOMAIN positions
    /\ (positions[call.symbol].market_value + call.dollar_amount) * 100
          > max_position_pct * account_equity

----------------------------------------------------------------------------
(* The paper-only guard *)

\* index of the first occurrence of needle in haystack, Len + 1 if none
Find(needle, haystack) ==
    LET hits == {i \in 1..(Len(haystack) - Len(needle) + 1) :
                    SubSeq(haystack, i, i + Len(needle) - 1) = needle}
    IN  IF hits = {} THEN Len(haystack) + 1
        ELSE CHOOSE i \in hits : \A j \in hits : i <= j

\* the host of a URL: what stands between "://" and the next "/"
HostOf(url) ==
    LET rest == SubSeq(url, Find(<<":", "/", "/">>, url) + 3, Len(url))
    IN  SubSeq(rest, 1, Find(<<"/">>, rest) - 1)

\* the URL names the brokerage's paper endpoint (paper-api.alpaca.markets)
IdentifiesPaperEndpoint(url) == HostOf(url) = HostOf(PaperUrl)

\* C4: construction with paper_only set and a base_url that does not
\* identify the paper endpoint fails before any state or HTTP client
\* exists, so no order goes to that URL; otherwise construction succeeds.
C4_PaperOnlyGuard ==
    om # "absent" =>
        IF paper_only /\ ~IdentifiesPaperEndpoint(base_url)
           THEN om = "refused" /\ client = "none" /\ calls = 0 /\ ~call.posted
           ELSE om = "ready" /\ client = "open"

\* what the constructor's check does guarantee: with paper_only set, a
\* base_url that lacks the text "paper" is refused with nothing created,
\* and every other construction succeeds
PaperGuardBySubstring ==
    om # "absent" =>
        IF paper_only /\ ~Contains(PaperWord, base_url)
           THEN om = "refused" /\ client = "none" /\ calls = 0 /\ ~call.posted
           ELSE om = "ready" /\ client = "open"

\* an order was POSTed to a live host by a paper_only order manager
LiveOrderUnderPaperOnly ==
    /\ om = "ready" /\ paper_only
    /\ ~IdentifiesPaperEndpoint(base_url)
    /\ call.posted

----------------------------------------------------------------------------
(* Properties of the streaming strategies *)

\* C5: for each of the five strategies and each symbol, two consecutive
\* signals of the instance for that symbol are at least cooldown_seconds
\* apart, and a call made while the strategy is in cooldown for the symbol
\* returns None.
C5_SignalCooldown ==
    /\ \A i, j \in DOMAIN signals :
          (i < j /\ signals[i].symbol = signals[j].symbol)
              => signals[j].time - signals[i].time >= StrategyCooldown
    /\ returned.cooldown => returned.signal = None

\* two signals were emitted for one symbol, and a later call for it fell
\* into the cooldown of the second
C5_Witness ==
    /\ \E i, j \in DOMAIN signals :
          /\ i < j
          /\ signals[i].symbol = signals[j].symbol
          /\ returned.symbol = signals[j].symbol
    /\ returned.cooldown

\* C11: a buy-and-hold instance emits at most one BUY per symbol over its
\* lifetime, whatever the order of its on_tick and on_bar calls and whether
\* or not the order of the BUY was filled, and it never emits a SELL.
C11_BuyAndHoldOnce ==
    kind = "buy_and_hold" =>
        /\ \A i \in DOMAIN signals : signals[i].type = "buy"
        /\ \A i, j \in DOMAIN signals :
              signals[i].symbol = signals[j].symbol => i = j

\* the BUY for a symbol was emitted, its order brought no position, and a
\* later call for the symbol returned nothing
C11_Witness ==
    /\ kind = "buy_and_hold"
    /\ ticks >= 2
    /\ \E i \in DOMAIN signals : signals[i].symbol = returned.symbol
    /\ returned.signal = None
    /\ Get(strategy_positions, returned.symbol, 0) = 0

\* C39: once a buy-and-hold strategy has emitted the BUY for a symbol and the
\* order brought no position (rejected by a rail or failed at the broker), no
\* later call emits a signal for the symbol and its tracked position stays 0
C39_FailedPurchaseNeverRetried ==
    [][\A sym \in Symbols :
          (/\ kind = "buy_and_hold"
           /\ \E i \in DOMAIN signals : signals[i].symbol = sym
           /\ Get(strategy_positions, sym, 0) = 0) =>
              /\ Get(strategy_positions', sym, 0) = 0
              /\ \A i \in DOMAIN signals' \ DOMAIN signals :
                    signals'[i].symbol # sym]_vars

\* the only BUY of the run brought no position, time has passed, and the
\* third or a later call, for the same symbol, returned nothing
C39_Witness ==
    /\ kind = "buy_and_hold"
    /\ ticks >= 3
    /\ Len(signals) = 1
    /\ signals[1].symbol = returned.symbol
    /\ signals[1].time < clock
    /\ returned.signal = None
    /\ Get(strategy_positions, returned.symbol, 0) = 0

\* C12: for the SMA crossover strategy, on a call that carries both means
\* for a symbol without position and outside the signal cooldown, a BUY is
\* returned exactly if short > long now and the previous call that carried
\* both means for the symbol had short <= long; so the first such call
\* returns nothing, and no second BUY comes before a crossunder.
C12_BuyExactlyOnCrossover ==
    [][(ticks' = ticks + 1 /\ kind = "sma_crossover") =>
          LET sym == returned'.symbol
              carried == /\ sym \in DOMAIN means_seen'
                         /\ means_seen'[sym].at = ticks'
              crossover == /\ means_seen'[sym].short_above
                           /\ sym \in DOMAIN means_seen
                           /\ ~means_seen[sym].short_above
          IN  (carried /\ Get(strategy_positions, sym, 0) = 0
                       /\ ~returned'.cooldown)
                  => (returned'.signal = "buy" <=> crossover)
      ]_vars

\* C31: every call of the SMA crossover strategy that carries both means
\* for a symbol stores short > long in prev_short_above for that symbol,
\* whether or not the call returns a signal, the calls made during the
\* signal cooldown of the symbol included.
C31_PrevShortAboveOnEveryCall ==
    [][(ticks' = ticks + 1 /\ kind = "sma_crossover") =>
          LET sym == returned'.symbol
              carried == /\ sym \in DOMAIN means_seen'
                         /\ means_seen'[sym].at = ticks'
          IN  carried => /\ sym \in DOMAIN prev_short_above'
                         /\ prev_short_above'[sym] = means_seen'[sym].short_above
      ]_vars

\* C13: for the momentum, mean-reversion, SMA crossover and RSI strategies
\* every call returns at most one signal, a BUY only while the tracked
\* position of the symbol is 0 and a SELL only while it is greater than 0.
C13_SignalsFollowPosition ==
    [][(ticks' = ticks + 1 /\ kind \in Kinds \ {"buy_and_hold"}) =>
          LET sym == returned'.symbol
              tracked == Get(strategy_positions, sym, 0)
          IN  /\ Len(signals') <= Len(signals) + 1
              /\ returned'.signal = "buy" => tracked = 0
              /\ returned'.signal = "sell" => tracked > 0
      ]_vars

\* one of the four strategies bought, its order was filled, and it then
\* returned a SELL for the position
C13_Witness ==
    /\ kind \in Kinds \ {"buy_and_hold"}
    /\ Len(signals) >= 2
    /\ signals[1].type = "buy"
    /\ returned.signal = "sell"
    /\ returned.symbol = signals[1].symbol

\* new is old without some of its first entries
IsSuffix(new, old) ==
    \E k \in 0..Len(old) : new = SubSeq(old, k + 1, Len(old))

C37_SubmitLeavesAccountCache ==
    [][/\ calls' # calls =>
              account_equity' = account_equity /\ positions' = positions
       /\ (om = "ready"
              /\ (account_equity' # account_equity \/ positions' # positions)) =>
              /\ calls' = calls
              /\ call' = call
              /\ orders_this_minute' = orders_this_minute
              /\ last_order_time' = last_order_time]_vars

\* a SELL was submitted and answered with an order, and the position sold is
\* still in the cache
C37_Witness ==
    /\ call.type = "sell"
    /\ call.result = "order"
    /\ call.symbol \in DOMAIN positions
    /\ positions[call.symbol] = HeldPosition

\* C38: while the cached account_equity is 0, no BUY is rejected by the
\* exposure cap: a BUY that the rate limit and the cooldown let through is
\* POSTed, whatever its dollar_amount and the cached position
C38_ZeroEquityCapsNothing ==
    [][(calls' # calls /\ account_equity = 0 /\ call'.type = "buy") =>
           /\ call'.log # "position_limit"
           /\ call'.log \notin {"rate_limit", "cooldown"} => call'.posted]_vars

\* a BUY on top of a cached position was POSTed while the cached equity is 0
C38_Witness ==
    /\ account_equity = 0
    /\ call.type = "buy"
    /\ call.posted
    /\ call.symbol \in DOMAIN positions
    /\ call.dollar_amount = 20

----------------------------------------------------------------------------
(* Properties of handle_signal                                             *)

\* the quantity the strategy tracks for a symbol, in a map of the strategy
QuantityIn(map, sym) == Get(map, sym, R(0, 1))

\* the parts of the claim that do not depend on the order's filled_qty
HandleSignalFrame ==
    /\ handled'.type = "buy" =>
          \E c \in CashAllocations, pct \in PositionSizePcts :
              REq(handled'.dollar_amount, R(c * pct, 100))
    /\ handled'.type = "sell" => REq(handled'.dollar_amount, R(0, 1))
    /\ ~handled'.answer.order => strategy_quantity' = strategy_quantity
    /\ (handled'.answer.order /\ handled'.type = "sell") =>
          REq(QuantityIn(strategy_quantity', handled'.symbol), R(0, 1))
    /\ \A s \in Symbols \ {handled'.symbol} :
          QuantityIn(strategy_quantity', s) = QuantityIn(strategy_quantity, s)

\* what a returned BUY order adds to the tracked quantity of its symbol
Growth ==
    RSub(QuantityIn(strategy_quantity', handled'.symbol),
         QuantityIn(strategy_quantity, handled'.symbol))

Estimate == RDiv(handled'.dollar_amount, R(handled'.price, 1))

\* C32 as stated: a BUY goes out with cash_allocation * position_size_pct
\* and a SELL with 0; a returned BUY order adds its filled_qty to the tracked
\* quantity when it carries one and dollar_amount / signal.price otherwise;
\* a returned SELL order sets it to 0; no order leaves the positions alone
C32_HandleSignalAsStated ==
    [][handles' # handles =>
          /\ HandleSignalFrame
          /\ (handled'.answer.order /\ handled'.type = "buy") =>
                IF handled'.answer.filled_qty # Missing
                THEN REq(Growth, R(handled'.answer.filled_qty[1], 1))
                ELSE REq(Growth, Estimate)
      ]_vars

\* C32, amended: as stated, except that a returned BUY order adds its
\* filled_qty only when it carries one that is not 0, and
\* dollar_amount / signal.price when the filled_qty is absent or 0
C32_HandleSignal ==
    [][handles' # handles =>
          /\ HandleSignalFrame
          /\ (handled'.answer.order /\ handled'.type = "buy") =>
                IF /\ handled'.answer.filled_qty # Missing
                   /\ handled'.answer.filled_qty[1] # 0
                THEN REq(Growth, R(handled'.answer.filled_qty[1], 1))
                ELSE REq(Growth, Estimate)
      ]_vars

\* a second BUY for a symbol came back with a filled quantity, after a first
\* one whose order carried none
C32_Witness ==
    /\ handles = 2
    /\ handled.type = "buy"
    /\ handled.answer.order
    /\ handled.answer.filled_qty = <<3>>
    /\ RLess(R(3, 1), QuantityIn(strategy_quantity, handled.symbol))

----------------------------------------------------------------------------
(* Properties of the batch strategy routines                               *)

\* the mean of the last period closes, summed by position
MeanOfLast(closes, period) ==
    R(SumOf(closes, (Len(closes) - period + 1)..Len(closes)), period)

\* the decision the pure functions of strategies.py give on the same input;
\* "raise": a comparison with None, or no first bar to take the start price of
LibrarySmaDecision(closes, short_period, long_period, position) ==
    LET short_sma == calculate_sma(closes, short_period)
        long_sma == calculate_sma(closes, long_period)
    IN  IF short_sma = Missing \/ long_sma = Missing THEN "raise"
        ELSE IF should_buy_sma_crossover(short_sma[1], long_sma[1], position)
           THEN "buy"
        ELSE IF should_sell_sma_crossover(short_sma[1], long_sma[1], position)
           THEN "sell"
        ELSE "none"

LibraryRsiDecision(closes, period, position) ==
    LET rsi == calculate_rsi(closes, period)
    IN  IF should_buy_rsi(rsi, Oversold, position) THEN "buy"
        ELSE IF should_sell_rsi(rsi, Overbought, position) THEN "sell"
        ELSE "none"

LibraryMomentumDecision(closes, threshold_pct, position) ==
    IF closes = <<>> THEN "raise"
    ELSE LET momentum_pct == calculate_momentum(closes[1], closes[Len(closes)])
         IN  IF should_buy_momentum(momentum_pct, threshold_pct, position)
                THEN "buy"
             ELSE IF should_sell_momentum(momentum_pct, threshold_pct, position)
                THEN "sell"
             ELSE "none"

\* C36: on every input the decision a scheduled strategy routine takes inline
\* (buy, sell or nothing) is the decision the pure functions of strategies.py
\* give on the same closes, periods, threshold and position flag, a start
\* price of 0 and fewer bars than the period included
C36_InlineEqualsLibrary ==
    /\ batch.routine = "run_sma_crossover" =>
           batch.action = LibrarySmaDecision(batch.closes, batch.short_period,
                                             batch.period, batch.position)
    /\ batch.routine = "run_rsi_strategy" =>
           batch.action = LibraryRsiDecision(batch.closes, batch.period,
                                             batch.position)
    /\ batch.routine = "run_momentum_strategy" =>
           batch.action = LibraryMomentumDecision(batch.closes, BatchThresholdPct,
                                                  batch.position)

\* C27: the scheduled SMA crossover asks for a buy exactly when the short
\* average is above the long one and no position is held, for a sell exactly
\* when it is below and a position is held, and for nothing otherwise, equal
\* averages included; the unit-tested decision functions agree; and
\* calculate_sma is the mean of the last period closes, None with fewer
C27_SmaCrossoverDecision ==
    batch.routine = "run_sma_crossover" =>
        LET closes == batch.closes
            short_sma == calculate_sma(closes, batch.short_period)
            long_sma == calculate_sma(closes, batch.period)
            known == short_sma # Missing /\ long_sma # Missing
            above == known /\ RLess(long_sma[1], short_sma[1])
            below == known /\ RLess(short_sma[1], long_sma[1])
        IN  /\ batch.action = "buy" <=> (above /\ ~batch.position)
            /\ batch.action = "sell" <=> (below /\ batch.position)
            /\ batch.action \in {"buy", "sell", "none"}
            /\ known => /\ should_buy_sma_crossover(short_sma[1], long_sma[1],
                                                    batch.position)
                           <=> batch.action = "buy"
                        /\ should_sell_sma_crossover(short_sma[1], long_sma[1],
                                                     batch.position)
                           <=> batch.action = "sell"
            /\ \A period \in ShortPeriods \cup LongPeriods :
                  IF Len(closes) < period
                  THEN calculate_sma(closes, period) = Missing
                  ELSE /\ calculate_sma(closes, period) # Missing
                       /\ REq(calculate_sma(closes, period)[1],
                              MeanOfLast(closes, period))

\* equal averages over different windows, no position held: nothing is asked
C27_Witness ==
    /\ batch.routine = "run_sma_crossover"
    /\ batch.short_period < batch.period
    /\ Len(batch.closes) > batch.period
    /\ ~batch.position
    /\ batch.closes[Len(batch.closes)] # batch.closes[Len(batch.closes) - 2]
    /\ REq(calculate_sma(batch.closes, batch.short_period)[1],
           calculate_sma(batch.closes, batch.period)[1])
    /\ batch.action = "none"

\* the last period differences of the closes hold no fall
NoLossInLast(closes, period) ==
    \A i \in 1..(Len(closes) - 1) :
        i > Len(closes) - 1 - period => closes[i + 1] >= closes[i]

StrictlyDecreasing(closes) ==
    \A i \in 1..(Len(closes) - 1) : closes[i + 1] < closes[i]

\* C28: the RSI of a series of at least period + 1 prices lies between 0 and
\* 100, is 100 when none of the last period differences is a fall, and is
\* below 30 when the series falls strictly; the streaming RSI strategy gives
\* no signal for a symbol before it has seen period + 1 prices of it
C28_RsiRange ==
    /\ batch.rsi # Missing =>
          LET rsi == batch.rsi[1]
          IN  /\ Len(batch.closes) >= batch.period + 1
              /\ rsi.den > 0
              /\ ~RLess(rsi, R(0, 1))
              /\ ~RLess(R(100, 1), rsi)
              /\ NoLossInLast(batch.closes, batch.period) => REq(rsi, R(100, 1))
              /\ StrictlyDecreasing(batch.closes) => RLess(rsi, R(30, 1))
    /\ (batch.routine = "run_rsi_strategy"
        /\ Len(batch.closes) >= batch.period + 1) => batch.rsi # Missing
    /\ (kind = "rsi" /\ returned.signal # None) =>
          Len(Get(prices, returned.symbol, <<>>)) = RsiPeriod + 1

\* rises and falls among the last period differences: an RSI strictly inside
C28_Witness ==
    /\ batch.rsi # Missing
    /\ Len(batch.closes) > batch.period + 1
    /\ RLess(R(0, 1), batch.rsi[1])
    /\ RLess(batch.rsi[1], R(100, 1))

----------------------------------------------------------------------------
(* Properties of the performance metrics                                   *)

\* the highest equity among the first i snapshots
RunningPeak(equities, i) ==
    CHOOSE e \in {equities[j] : j \in 1..i} :
        \A j \in 1..i : equities[j] <= e

NonDecreasing(equities) ==
    \A i \in 1..(Len(equities) - 1) : equities[i] <= equities[i + 1]

\* C29: for a non-empty snapshot sequence the maximum drawdown d satisfies
\* 0 <= d <= 1, is the largest (running peak - equity) / running peak over
\* the sequence, and is 0 exactly when the equity never falls; for an empty
\* sequence it is 0
C29_MaxDrawdown ==
    drawdown.called =>
        LET equities == drawdown.snapshots
            d == drawdown.result
            At(i) == R(RunningPeak(equities, i) - equities[i],
                       RunningPeak(equities, i))
            Measured == {i \in 1..Len(equities) : RunningPeak(equities, i) > 0}
        IN  /\ d.den > 0
            /\ Len(equities) = 0 => REq(d, R(0, 1))
            /\ Len(equities) > 0 =>
                  /\ ~RLess(d, R(0, 1))
                  /\ ~RLess(R(1, 1), d)
                  /\ \A i \in Measured : ~RLess(d, At(i))
                  /\ REq(d, R(0, 1)) \/ \E i \in Measured : REq(d, At(i))
                  /\ REq(d, R(0, 1)) <=> NonDecreasing(equities)

----------------------------------------------------------------------------
(* Properties of the tick buffer *)

\* the ticks of seq that are not older than max_age_seconds at time now
Fresh(seq, now) ==
    SelectSeq(seq, LAMBDA tick : tick.timestamp >= now - MaxAgeSeconds)

\* the ticks added for sym so far
Arrived(sym) == IF sym \in DOMAIN arrivals THEN arrivals[sym] ELSE <<>>

\* C25: after an add for a symbol, with every tick stamped with the time of
\* its arrival, the symbol's buffer holds the ticks added for it that are no
\* older than max_age_seconds, in the order of their arrival, and nothing
\* older; the buffer of every other symbol is as it was.
C25_AddKeepsBufferFresh ==
    [][(adds' = adds + 1 /\ stamped') =>
          \E sym \in DOMAIN buffers' :
              /\ arrivals'[sym] # Arrived(sym)
              /\ buffers'[sym] = Fresh(arrivals'[sym], clock')
              /\ \A i \in DOMAIN buffers'[sym] :
                    buffers'[sym][i].timestamp >= clock' - MaxAgeSeconds
              /\ \A other \in DOMAIN buffers' \ {sym} :
                    /\ other \in DOMAIN buffers
                    /\ buffers'[other] = buffers[other]
              /\ DOMAIN buffers \subseteq DOMAIN buffers'
      ]_vars

\* an add dropped the ticks that had grown too old and kept the new one,
\* while another symbol has its buffer
C25_Witness ==
    /\ stamped
    /\ adds = 3
    /\ "AAPL" \in DOMAIN buffers /\ "MSFT" \in DOMAIN buffers
    /\ Len(arrivals["AAPL"]) = 2
    /\ Len(buffers["AAPL"]) = 1
    /\ buffers["AAPL"][1].timestamp = clock
    /\ Len(buffers["MSFT"]) = 1

\* every tick added for sym is older than max_age_seconds now
AllStale(sym) ==
    /\ sym \in DOMAIN arrivals
    /\ \A i \in DOMAIN arrivals[sym] :
          arrivals[sym][i].timestamp < clock - MaxAgeSeconds

\* C26: when every tick added for a symbol is older than max_age_seconds,
\* a get_indicators call for the symbol returns the empty mapping, whether
\* it follows an add at once or comes later with no add in between.
C26_StaleTicksGiveNoIndicators ==
    [][(<<indicators, asked>>' # <<indicators, asked>> /\ AllStale(asked'))
          => indicators' = EmptyMap
      ]_vars

----------------------------------------------------------------------------
(* Properties of the streaming engine's process *)

\* a is an initial part of b
IsPrefix(a, b) ==
    /\ Len(a) <= Len(b)
    /\ \A i \in 1..Len(a) : a[i] = b[i]

\* the elements of the sequence seq
Range(seq) == {seq[i] : i \in DOMAIN seq}

HandshakeOrder == <<"welcome", "auth", "auth_response", "subscribe", "ack", "loop">>

\* C14: the stream client's handshake goes welcome received, auth sent,
\* auth response received, subscribe sent, acknowledgement received,
\* receive loop entered, and nothing is dispatched before the loop is
\* entered; after an auth response other than "authenticated" connect has
\* failed for good: no subscribe is sent, no trade or bar is dispatched.
C14_HandshakeOrder ==
    /\ IsPrefix(handshake, HandshakeOrder)
    /\ (frames > 0 \/ dispatched # <<>>) => handshake = HandshakeOrder
    /\ auth = "failed" =>
          /\ main \in {"finally", "exited"}
          /\ "subscribe" \notin Range(handshake)
          /\ frames = 0 /\ dispatched = <<>>

\* the auth response was a refusal and the process has ended
C14_Witness ==
    /\ auth = "failed"
    /\ handshake = <<"welcome", "auth", "auth_response">>
    /\ main = "exited"

RECURSIVE ExpectedCalls(_)
\* the strategy calls that the first n items received ask for, in order
ExpectedCalls(n) ==
    IF n = 0 THEN <<>>
    ELSE LET bound == symbol_strategies[received[n]]
         IN  ExpectedCalls(n - 1)
                \o [k \in 1..Len(bound) |-> [tick |-> n, strategy |-> bound[k]]]

\* C15: the strategy calls are made in the order of the items received and,
\* for one item, in the configured order of its strategies; outside a
\* handler every item received has had all its calls and no submit is in
\* progress (so a frame is only taken up when the one before is done); at
\* no moment are two submit calls in progress, whatever the refresher and
\* the stats logger do.
C15_SerialDispatch ==
    /\ IsPrefix(dispatched, ExpectedCalls(Len(received)))
    /\ in_flight <= 1
    /\ main \notin {"handler", "post"} =>
          /\ dispatched = ExpectedCalls(Len(received))
          /\ in_flight = 0

\* a submit is awaiting its answer while the refresher is awaiting its own,
\* in the second frame
C15_Witness ==
    /\ frames = 2
    /\ in_flight = 1
    /\ refresher = "refreshing"
    /\ Len(dispatched) >= 3

\* C16: when a strategy's on_tick / on_bar (or the handling of its signal)
\* raises, the handler goes on with the next strategy bound to the symbol
\* for the same item, and ends normally after the last one; so every item
\* that is done has had the calls of all its strategies.
C16_StrategyErrorContained ==
    [][(event' = "raises" /\ Len(dispatched') = Len(dispatched) + 1) =>
          LET bound == symbol_strategies[Head(queue)]
          IN  /\ strat < Len(bound) =>
                    /\ main' = "handler"
                    /\ queue' = queue
                    /\ strat' = strat + 1
              /\ strat = Len(bound) =>
                    /\ queue' = Tail(queue)
                    /\ main' = IF queue' # <<>> THEN "handler"
                               ELSE IF running THEN "recv" ELSE "finally"
              /\ IsPrefix(dispatched', ExpectedCalls(Len(received')))
      ]_vars

\* the first strategy of an item raised, the second was called all the
\* same, and the loop awaits the next frame
C16_Witness ==
    /\ main = "recv"
    /\ \E made \in raised :
          /\ made.strategy = 1
          /\ [tick |-> made.tick, strategy |-> 2] \in Range(dispatched)

\* the errors that are not fatal: HTTP >= 400 or a timeout of the order
\* POST, a failed account refresh, a safety-rail rejection, a strategy
\* exception, a missing indicator (the strategy returns None)
NonFatal == {"http_error", "timeout", "refresh_failed", "rejected", "raises", "none"}

\* C17: once the receive loop is running, a step that meets a non-fatal
\* error leaves the loop running: run_engine stays in the loop (handling
\* the frame or awaiting the next one) unless running was cleared by a stop.
C17_LoopSurvivesErrors ==
    [][(event' \in NonFatal /\ main \in {"recv", "handler", "post"} /\ running)
          => main' \in {"recv", "handler", "post"}
      ]_vars

\* an order POST was answered with HTTP >= 400 and the loop awaits the next
\* frame on the open connection
C17_Witness ==
    /\ event = "http_error"
    /\ main = "recv"
    /\ running /\ ws = "open"
    /\ frames = 1

\* C33: in the receive loop, an interval without a frame on an open
\* connection (the timeout and its ping) leaves the client waiting, running
\* still true; a closed connection ends the loop with running false; and once
\* the loop has ended no connection is opened again: a connection is opened
\* only by the first connect
C33_TimeoutPingsClosedEnds ==
    [][/\ (main = "recv" /\ ws = "open" /\ ws' = "open" /\ frames' = frames)
              => (running' /\ main' = "recv")
       /\ (main = "recv" /\ ws = "closed" /\ main' # "recv")
              => (~running' /\ main' = "finally")
       /\ main \in {"finally", "exited"} => main' \in {"finally", "exited"}
       /\ (ws # "open" /\ ws' = "open") => main = "start"
      ]_vars

\* the loop waits after a timeout, a frame handled before it
C33_Witness ==
    /\ event = "recv_timeout"
    /\ main = "recv"
    /\ ws = "open"
    /\ running
    /\ frames > 0

\* C40: once engine.stop() has completed (connection closed, running false,
\* the order manager's HTTP client closed), the account refresher starts no
\* further refresh_account call
C40_NoRefreshAfterStop ==
    [][(stopper = "done" /\ http_client = "closed") =>
           ~(refresher # "refreshing" /\ refresher' = "refreshing")]_vars

\* C18: once a shutdown signal has set the stop flag, the receive loop, the
\* account refresher and the stats logger all end.
C18_StopEndsEverything ==
    stop_set ~> (/\ main = "exited"
                 /\ refresher \in Ended
                 /\ stats \in Ended)

----------------------------------------------------------------------------
(* Properties of the scheduled engine's bookkeeping *)

\* C6: after any sequence of committed trades of the algorithm (buys sized
\* from its cash, sells of its positions, each filled at the price the
\* broker reports) in which no call failed, the stored cash is not negative.
C6_CashNeverNegative == clean => cash >= 0

\* the order of the last step was booked
Booked(o) == o.stage = "booked" /\ o.written

\* the fill price p of an order: the broker's filled_avg_price if returned,
\* otherwise the close of the current bar
FillPrice(o) ==
    IF o.filled_avg_price # Missing THEN o.filled_avg_price[1] ELSE o.close

\* the stored quantity of symbol, 0 without a row
StoredQuantity(table, symbol) ==
    IF symbol \in DOMAIN table THEN table[symbol].quantity ELSE 0

\* C7: a BUY of quantity q that commits at fill price p takes exactly q*p
\* from the cash and adds exactly q to the position's quantity (a new row
\* [q, p] if there was none); a SELL of quantity q that commits at price p
\* adds exactly q*p to the cash and takes q from the position's quantity.
C7_CashAndPositionAccounting ==
    [][(orders' = orders + 1 /\ Booked(order')) =>
          LET o == order'
              q == o.quantity
              p == FillPrice(o)
          IN  IF o.side = "buy"
                 THEN /\ cash' = cash - q * p
                      /\ StoredQuantity(db_positions', o.symbol)
                             = StoredQuantity(db_positions, o.symbol) + q
                      /\ o.symbol \notin DOMAIN db_positions =>
                             db_positions'[o.symbol]
                                 = [quantity |-> q, avg_entry_price |-> p]
                 ELSE /\ cash' = cash + q * p
                      /\ StoredQuantity(db_positions', o.symbol)
                             = StoredQuantity(db_positions, o.symbol) - q
      ]_vars

\* the spec's example at the model's scale: from the initial cash a BUY of
\* 5 at the close 2 was booked, then a SELL of the 5 at the reported fill 3;
\* the cash is up by 5 and the row is gone
C7_Witness ==
    /\ Len(trades) = 2
    /\ trades[1].side = "buy" /\ trades[1].quantity = 5
    /\ order.side = "sell" /\ Booked(order)
    /\ order.quantity = 5 /\ order.filled_avg_price = <<3>>
    /\ cash = InitialCash - 5 * 2 + 5 * 3
    /\ order.symbol \notin DOMAIN db_positions
    /\ clean

RECURSIVE Held(_, _)
\* the quantity of symbol the algorithm holds by its trades: bought - sold
Held(symbol, n) ==
    IF n = 0 THEN 0
    ELSE Held(symbol, n - 1)
           + (IF trades[n].symbol # symbol THEN 0
              ELSE IF trades[n].side = "buy" THEN trades[n].quantity
              ELSE -trades[n].quantity)

\* C8: every stored position row has quantity > 0; while no call has
\* failed, a row for the symbol exists exactly if the algorithm holds a
\* quantity > 0 of it, and holds that quantity; so a sell that brings the
\* quantity to zero leaves no row.
C8_RowIffHeld ==
    /\ \A symbol \in DOMAIN db_positions : db_positions[symbol].quantity > 0
    /\ clean =>
          \A symbol \in AlgoSymbols :
              /\ symbol \in DOMAIN db_positions <=> Held(symbol, Len(trades)) > 0
              /\ StoredQuantity(db_positions, symbol) = Held(symbol, Len(trades))

\* a position was bought and then sold to zero without any failure, and its
\* row is gone
C8_Witness ==
    /\ clean
    /\ Len(trades) = 2
    /\ order.side = "sell" /\ Booked(order)
    /\ Held(order.symbol, 1) > 0
    /\ Held(order.symbol, 2) = 0
    /\ order.symbol \notin DOMAIN db_positions

\* C9: the writes that record one order (INSERT of the trade, write of the
\* position row, update of the cash) take effect together or not at all:
\* no step leaves a trade without its position and cash effect, or a
\* position change without the cash change.
C9_BookkeepingIsOneTransaction ==
    [][orders' = orders + 1 =>
          LET trade_written == Len(trades') = Len(trades) + 1
              position_written == db_positions' # db_positions
              cash_written == cash' # cash
          IN  /\ trade_written <=> position_written
              /\ position_written <=> cash_written
      ]_vars

RECURSIVE Worth(_, _, _)
\* the rows syms of a positions table, each at quantity * price
Worth(table, syms, price) ==
    IF syms = {} THEN 0
    ELSE LET sym == CHOOSE x \in syms : TRUE
         IN  table[sym].quantity * price + Worth(table, syms \ {sym}, price)

\* C34: an order that reaches bookkeeping, in a run whose calls all succeed,
\* is followed within the same submit_order by exactly one new snapshot, made
\* after the position and cash updates: its cash is the cash after the
\* adjustment and its equity that cash plus quantity * current price over the
\* position rows (the algorithm trades one symbol, at the current close).
C34_SnapshotAfterBookkeeping ==
    [][(orders' = orders + 1 /\ order'.stage = "booked" /\ clean') =>
          /\ Len(snapshots') = Len(snapshots) + 1
          /\ SubSeq(snapshots', 1, Len(snapshots)) = snapshots
          /\ LET snap == snapshots'[Len(snapshots')]
             IN  /\ snap.cash = cash'
                 /\ snap.equity
                       = cash' + Worth(db_positions', DOMAIN db_positions',
                                       order'.close)
      ]_vars

\* a BUY was booked at a fill price other than the close, and the snapshot
\* that follows it holds the cash left and counts the position at the close
C34_Witness ==
    /\ Len(snapshots) = 1
    /\ order.stage = "booked" /\ clean
    /\ order.side = "buy"
    /\ order.filled_avg_price # Missing
    /\ order.filled_avg_price[1] # order.close
    /\ snapshots[1].cash = cash
    /\ cash < InitialCash
    /\ snapshots[1].equity > snapshots[1].cash

\* the order of the last step went to the brokerage
Sent(o) == o.answer # "none"

\* C21: submit_order sends a BUY to the brokerage only when the quantity is
\* at least 1 and quantity * close of the current bar is at most the
\* algorithm's cash; a BUY that is not sent leaves trades, positions, cash
\* and snapshots as they were.
C21_BuyNeedsCash ==
    [][(orders' = orders + 1 /\ order'.side = "buy") =>
          IF Sent(order')
             THEN /\ order'.quantity >= 1
                  /\ order'.quantity * order'.close <= cash
             ELSE UNCHANGED <<trades, db_positions, cash, snapshots>>
      ]_vars

\* a BUY of a share count whose estimated cost exceeds the cash was
\* refused, and a BUY was sent before it
C21_Witness ==
    /\ orders = 2
    /\ order.side = "buy"
    /\ order.stage = "insufficient_cash"
    /\ order.quantity * order.close > cash
    /\ Len(trades) = 1

\* C22: when the brokerage answers the order POST with an error (a body
\* that carries no order), no Trade row is inserted, no position row is
\* created, changed or deleted and the cash is not adjusted.
C22_ErrorAnswerBooksNothing ==
    [][(orders' = orders + 1 /\ order'.answer = "error_body") =>
          UNCHANGED <<trades, db_positions, cash>>
      ]_vars

\* C24: trades and snapshots are append-only: whatever the scheduled engine
\* or the dashboard API does, every Trade row and every Snapshot row that
\* was stored is still stored, unchanged, afterwards.
C24_TradesAndSnapshotsAppendOnly ==
    [][IsPrefix(trades, trades') /\ IsPrefix(snapshots, snapshots')]_vars

----------------------------------------------------------------------------
(* Properties of the scheduled engine's invocations *)

\* C19: on an invocation where the market clock does not report open, no
\* algorithm is evaluated and no order is submitted; if the minute of the
\* hour is 0, exactly one snapshot is written for every enabled algorithm.
C19_ClosedMarketInvocation ==
    (invocations > 0 /\ invocation.clock # "open") =>
        /\ invocation.evaluated = <<>>
        /\ invocation.orders = 0
        /\ invocation.minute = 0 =>
              invocation.hourly = [i \in 1..Len(invocation.algorithms) |-> i]

\* C20: on an invocation with the market open, every enabled algorithm of
\* one of the five strategy kinds is dispatched to the batch routine of its
\* kind, which evaluates each of the algorithm's symbols.
C20_EveryKindDispatched ==
    (invocations > 0 /\ invocation.clock = "open") =>
        \A i \in DOMAIN invocation.algorithms :
            invocation.algorithms[i] \in Kinds =>
                \E j \in DOMAIN invocation.evaluated :
                    /\ invocation.evaluated[j].algorithm = i
                    /\ invocation.evaluated[j].routine # "none"
                    /\ invocation.evaluated[j].symbols = AlgoSymbols

\* C23: when one call fails while an algorithm is run (bars fetch, position
\* or cash read, order POST, store write, or an answer the routine cannot
\* read), every enabled algorithm of the invocation is still run, the
\* routines called for the others end as if nothing had failed, and the
\* invocation completes.
C23_FailureStopsNoOtherAlgorithm ==
    (invocations > 0 /\ invocation.failure.algorithm # 0) =>
        /\ invocation.ran = [i \in 1..Len(invocation.algorithms) |-> i]
        /\ \A j \in DOMAIN invocation.evaluated :
              invocation.evaluated[j].algorithm # invocation.failure.algorithm
                 => invocation.evaluated[j].outcome = "done"
        /\ invocation.response = "Trading engine run complete"

\* the routine of the first of two algorithms raised and the second
\* algorithm was run all the same
C23_Witness ==
    /\ invocation.failure = [algorithm |-> 1, call |-> "malformed"]
    /\ Len(invocation.algorithms) = 2
    /\ invocation.ran = <<1, 2>>
    /\ Len(invocation.evaluated) = 2
    /\ invocation.evaluated[1].outcome = "raised"
    /\ invocation.evaluated[2].outcome = "done"

----------------------------------------------------------------------------
(* Properties of overlapping invocations                                   *)

RECURSIVE BoughtFor(_)
\* what the buys of the first n trade rows cost, at the close they were
\* booked at (the one close of OverlapCloses)
BoughtFor(n) ==
    IF n = 0 THEN 0
    ELSE BoughtFor(n - 1)
           + trades[n].quantity * (CHOOSE c \in OverlapCloses : TRUE)

\* C35: when two invocations overlap for one algorithm, the store they leave
\* is that of running them one after the other: the cash reflects the cost of
\* every buy committed, and the position row holds what the buys bought
C35_OverlapIsSerial ==
    (\A i \in Invocations : runs[i].pc = "done") =>
        /\ cash = InitialCash - BoughtFor(Len(trades))
        /\ StoredQuantity(db_positions, OverlapSymbol) = Held(OverlapSymbol, Len(trades))

====
